---- MODULE Spec2Model ----
(***************************************************************************)
(* Candidate discovery and ranking pipeline of gitscout                    *)
(* (backend/app/services/matching, backend/app/services/github).           *)
(*                                                                         *)
(* Four specifications share this module, one per component:               *)
(*   SpecScore    scorer.py / ranker.py    calculate_score, rank_candidates *)
(*   SpecQuery    query_generator.py       generate_repo_queries            *)
(*   SpecPipeline repo_pipeline.py         run_repo_contributors_pipeline   *)
(*   SpecJD       query_generator.py       generate_jd_spec                 *)
(*                                                                         *)
(* Numbers are fixed point.  Scores of calculate_score are kept in         *)
(* thousandths of a point before rounding and in hundredths after          *)
(* round(score, 2).  Time is counted in whole days.                        *)
(***************************************************************************)
EXTENDS Integers, Sequences, FiniteSets, TLC

VARIABLES
    \* ---- scorer / ranker
    users,          \* the list of parsed user dictionaries handed to rank_candidates
    now,            \* datetime.now(), in days
    evals,          \* the calls of calculate_score made so far: <<user, now, score>>
    candidates,     \* the list returned by rank_candidates, and when it was called
    \* ---- generate_repo_queries
    spec,           \* the GitScoutJDSpec handed to generate_repo_queries
    today,          \* datetime.now() of generate_repo_queries, in days since 1970-01-01
    queries,        \* the list generate_repo_queries returned
    \* ---- run_repo_contributors_pipeline
    pc,             \* the pipeline's position
    cfg,            \* the argument values of the run (exclude flags, queries)
    qi,             \* index of the next query of the search loop
    all_repos,      \* repo_pipeline.py:44
    seen_repos,     \* repo_pipeline.py:45
    dup_nodes,      \* history: number of nodes skipped because their name was seen
    hist,           \* history: names found, failed searches, hydration batches and nulls
    top_repos,      \* repo_pipeline.py:73
    ci,             \* index of the next repository whose contributors are fetched
    contributors_by_repo,   \* what get_contributors_batch returned
    contributor_scores,     \* repo_pipeline.py:88
    contributor_node_ids,   \* repo_pipeline.py:89
    first_node_ids,         \* history: the handle each login was first seen with
    hydrated,       \* all_users of hydrate_users
    hi,             \* index of the next handle to hydrate
    top_node_ids,   \* repo_pipeline.py:122
    result,         \* the returned tuple (enriched_users, final_scores)
    raised,         \* the exception that left the pipeline ("" when none)
    requests,       \* history: number of requests issued per stage
    \* ---- generate_jd_spec
    jpc,            \* generate_jd_spec's position
    jd,             \* the call's arguments: provider name, job text, environment
    spec_dict,      \* the local spec_dict
    jd_result,      \* the returned GitScoutJDSpec
    jd_raised,      \* the exception that left generate_jd_spec ("" when none)
    jd_calls,       \* history: the provider calls made, in order
    \* ---- get_contributors_batch
    bpc,            \* get_contributors_batch's position
    batch_args,     \* the call's arguments: repos, max_concurrent
    semaphore,      \* the value of asyncio.Semaphore(max_concurrent)
    tasks,          \* the fetch_with_limit task of each repository
    batch_result,   \* the returned contributors_by_repo
    \* ---- hydrate_users with _retry_request
    hpc,            \* hydrate_users' position: "request", "sleep", "done"
    h_args,         \* the call's arguments: node_ids, batch_size
    h_i,            \* the loop variable i of hydrate_users (offset of the batch)
    h_attempt,      \* the loop variable attempt of _retry_request
    h_last,         \* last_exception of _retry_request
    all_users,      \* client.py:304
    h_out,          \* what hydrate_users returned
    h_raised,       \* the exception that left hydrate_users ("" when none)
    h_log,          \* history: the attempts of the current _retry_request call
    h_sent,         \* history: the offsets of the batches requested so far
    \* ---- search cache (services/cache/search_cache.py)
    c_now,          \* time.time(), in units of 150 seconds
    cache,          \* SearchCache._cache: session id -> CachedSearch
    c_issued,       \* how many session ids uuid4 has handed out
    cleanup_due,    \* when the asyncio.sleep of _cleanup_loop ends
    c_answer,       \* the last call on the cache and what it returned
    \* ---- job search store (services/job_search/job_search_service.py)
    js_doc,         \* Firestore: the document job_searches/{search_id}
    js_convs,       \* Firestore: the ids of the documents of its conversations subcollection
    js_msgs,        \* Firestore: the <<conversation, message>> ids of the messages documents
    js_calls        \* the calls of JobSearchService methods: arguments, worker, position, locals

scoreVars == <<users, now, evals, candidates>>
queryVars == <<spec, today, queries>>
pipeVars == <<pc, cfg, qi, all_repos, seen_repos, dup_nodes, hist, top_repos, ci, contributors_by_repo,
              contributor_scores, contributor_node_ids, first_node_ids,
              hydrated, hi, top_node_ids, result, raised, requests>>
jdVars == <<jpc, jd, spec_dict, jd_result, jd_raised, jd_calls>>
batchVars == <<bpc, batch_args, semaphore, tasks, batch_result>>
hydVars == <<hpc, h_args, h_i, h_attempt, h_last, all_users, h_out, h_raised, h_log,
             h_sent>>
cacheVars == <<c_now, cache, c_issued, cleanup_due, c_answer>>
storeVars == <<js_doc, js_convs, js_msgs, js_calls>>
vars == <<scoreVars, queryVars, pipeVars, jdVars, batchVars, hydVars, cacheVars, storeVars>>

None == "None"

Min(a, b) == IF a <= b THEN a ELSE b
Max(a, b) == IF a >= b THEN a ELSE b

Range(s) == {s[i] : i \in 1..Len(s)}

\* s[:n] of Python for n >= 0
Take(s, n) == SubSeq(s, 1, Min(n, Len(s)))

\* the sequences over S of length at most n
SeqsUpTo(S, n) == UNION {[1..k -> S] : k \in 0..n}

RECURSIVE SumSeq(_)
SumSeq(s) == IF s = <<>> THEN 0 ELSE Head(s) + SumSeq(Tail(s))

(***************************************************************************)
(* Idle values: each specification leaves the other components' variables  *)
(* at these values.                                                        *)
(***************************************************************************)
NotCalled == [done |-> FALSE]

ScoreIdle == /\ users = <<>> /\ now = 0 /\ evals = <<>> /\ candidates = NotCalled
QueryIdle == /\ spec = None /\ today = 0 /\ queries = NotCalled
PipeIdle ==
    /\ pc = "idle" /\ cfg = None /\ qi = 0 /\ all_repos = <<>> /\ seen_repos = {}
    /\ dup_nodes = 0 /\ hist = None
    /\ top_repos = <<>> /\ ci = 0 /\ contributors_by_repo = <<>>
    /\ contributor_scores = <<>> /\ contributor_node_ids = <<>>
    /\ first_node_ids = <<>> /\ hydrated = <<>> /\ hi = 0 /\ top_node_ids = <<>>
    /\ result = NotCalled /\ raised = "" /\ requests = <<>>
JDIdle ==
    /\ jpc = "idle" /\ jd = None /\ spec_dict = None /\ jd_result = NotCalled
    /\ jd_raised = "" /\ jd_calls = <<>>
BatchIdle ==
    /\ bpc = "idle" /\ batch_args = None /\ semaphore = 0 /\ tasks = <<>>
    /\ batch_result = NotCalled
HydIdle ==
    /\ hpc = "idle" /\ h_args = None /\ h_i = 0 /\ h_attempt = 0 /\ h_last = ""
    /\ all_users = <<>> /\ h_out = NotCalled /\ h_raised = "" /\ h_log = <<>>
    /\ h_sent = <<>>
CacheIdle ==
    /\ c_now = 0 /\ cache = <<>> /\ c_issued = 0 /\ cleanup_due = 0
    /\ c_answer = NotCalled
StoreIdle ==
    /\ js_doc = [exists |-> FALSE] /\ js_convs = {} /\ js_msgs = {} /\ js_calls = <<>>

(***************************************************************************)
(*                          SCORER  (scorer.py)                            *)
(***************************************************************************)

\* pushedAt of a repository: an ISO timestamp (its day), null, or a string that
\* datetime.fromisoformat rejects
Date(d) == [kind |-> "date", day |-> d]
NoDate == [kind |-> "none"]
BadDate == [kind |-> "bad"]

\* A repository of a parsed user: client.py parse_user_data
UserRepo(name, stars, fork, langs, pushed, topics) ==
    [nameWithOwner |-> name, stargazerCount |-> stars, isFork |-> fork,
     languages |-> langs, pushedAt |-> pushed, topics |-> topics]

\* 1. Repository count (max 12 points): min(repo_count / 2.0, 12.0)
RepoCountScore(u) == Min(500 * Len(u.repositories), 12000)

\* sum of stargazerCount over the repositories that are not forks
RECURSIVE TotalStars(_)
TotalStars(repos) ==
    IF repos = <<>> THEN 0
    ELSE (IF Head(repos).isFork THEN 0 ELSE Head(repos).stargazerCount)
         + TotalStars(Tail(repos))

\* 2. Total stars (max 18 points): min(total_stars / 50.0, 18.0)
StarsScore(u) == Min(20 * TotalStars(u.repositories), 18000)

\* 3. Contributions (max 18 points): min(total_commits / 100.0, 18.0)
CommitsScore(u) == Min(10 * u.totalCommits, 18000)

AllLanguages(u) == UNION {u.repositories[i].languages : i \in 1..Len(u.repositories)}
AllTopics(u) == UNION {u.repositories[i].topics : i \in 1..Len(u.repositories)}

\* 4. Language diversity (max 20 points): min(lang_count * 2.5, 20.0)
LangScore(u) == Min(2500 * Cardinality(AllLanguages(u)), 20000)

ActivityWindowDays == 180

IsRecent_Window90(repo, t) ==
    /\ repo.pushedAt.kind = "date"
    /\ repo.pushedAt.day > t - 90

\* pushed_at parses and pushed_date > datetime.now() - timedelta(days=180);
\* a missing or unparseable pushedAt counts for nothing
IsRecent(repo, t) ==
    /\ repo.pushedAt.kind = "date"
    /\ repo.pushedAt.day > t - ActivityWindowDays

RecentRepos(u, t) ==
    Cardinality({i \in 1..Len(u.repositories) : IsRecent(u.repositories[i], t)})

\* 5. Recent activity (max 10 points): min(recent_repos * 2, 10.0)
ActivityScore(u, t) == Min(2000 * RecentRepos(u, t), 10000)

FollowersScore_NoCap(u) == 10 * u.followers

\* 6. Follower count (max 7 points): min(followers / 100.0, 7.0)
FollowersScore(u) == Min(10 * u.followers, 7000)

\* 7. Contribution seed (max 15 points): min(contrib_seed * 2, 15.0);
\* contrib_score_seed is held in thousandths
SeedScore(u) == Min(2 * u.contrib_score_seed, 15000)

\* round(x, 2) on a value in thousandths, result in hundredths (half to even)
Round2(m) ==
    LET q == m \div 10
        r == m % 10
    IN  IF r < 5 THEN q
        ELSE IF r > 5 THEN q + 1
        ELSE IF q % 2 = 0 THEN q ELSE q + 1

RawScore(u, t) ==
    RepoCountScore(u) + StarsScore(u) + CommitsScore(u) + LangScore(u)
    + ActivityScore(u, t) + FollowersScore(u) + SeedScore(u)

\* calculate_score(user_data), evaluated when datetime.now() = t; in hundredths
calculate_score(u, t) == Round2(RawScore(u, t))

(***************************************************************************)
(*                          RANKER  (ranker.py)                            *)
(***************************************************************************)

\* generate_match_reason: the reasons in priority order, the first three kept.
\* Which three languages or topics are named depends on the iteration order
\* of a Python set; the reason records its kind and the number of names.
generate_match_reason(u) ==
    LET langs == IF AllLanguages(u) # {}
                 THEN <<[kind |-> "Expertise in",
                         n |-> Min(Cardinality(AllLanguages(u)), 3)]>>
                 ELSE <<>>
        topics == IF AllTopics(u) # {}
                  THEN <<[kind |-> "Experience with",
                          n |-> Min(Cardinality(AllTopics(u)), 3)]>>
                  ELSE <<>>
        commits == IF u.totalCommits > 100
                   THEN <<[kind |-> "contributions", n |-> u.totalCommits]>>
                   ELSE <<>>
        stars == IF TotalStars(u.repositories) > 50
                 THEN <<[kind |-> "stars earned", n |-> TotalStars(u.repositories)]>>
                 ELSE <<>>
        reasons == langs \o topics \o commits \o stars
    IN  IF reasons = <<>> THEN <<[kind |-> "Active GitHub profile", n |-> 0]>>
        ELSE Take(reasons, 3)

TopReposShown == 4

\* Repository(...) of models/responses.py built from a parsed repository
Repository(repo) ==
    [nameWithOwner |-> repo.nameWithOwner, stars |-> repo.stargazerCount,
     languages |-> repo.languages, topics |-> repo.topics]

\* A string that the code takes apart (lowered, searched): its characters; the
\* null of an Optional[str] is NoText
Text(chars) == [kind |-> "str", chars |-> chars]
NoText == [kind |-> "none"]

\* Candidate(...) as rank_candidates builds it: the fields it does not pass
\* keep the defaults of models/responses.py
Candidate(u, t) ==
    [login |-> u.login,
     score |-> calculate_score(u, t),
     topRepos |-> [i \in 1..Min(TopReposShown, Len(u.repositories)) |->
                      Repository(u.repositories[i])],
     matchReason |-> generate_match_reason(u),
     location |-> NoText, followers |-> 0, email |-> None,
     twitterUsername |-> None, websiteUrl |-> None,
     lastContributionDate |-> NoDate]

InsertByScore_TiesReversed(sorted, c) ==
    LET k == Cardinality({i \in 1..Len(sorted) : sorted[i].score > c.score})
    IN  SubSeq(sorted, 1, k) \o <<c>> \o SubSeq(sorted, k + 1, Len(sorted))

\* one step of list.sort(key=score, reverse=True): c goes behind every element
\* whose key is greater than or equal to its own (the sort is stable)
InsertByScore(sorted, c) ==
    LET k == Cardinality({i \in 1..Len(sorted) : sorted[i].score >= c.score})
    IN  SubSeq(sorted, 1, k) \o <<c>> \o SubSeq(sorted, k + 1, Len(sorted))

RECURSIVE SortByScore(_)
SortByScore(cs) ==
    IF cs = <<>> THEN <<>>
    ELSE InsertByScore(SortByScore(SubSeq(cs, 1, Len(cs) - 1)), cs[Len(cs)])

\* rank_candidates(users, jd_text) called when datetime.now() = t
rank_candidates(us, t) == SortByScore([i \in 1..Len(us) |-> Candidate(us[i], t)])

(***************************************************************************)
(*              CANDIDATE FILTER  (filtering/candidate_filter.py)          *)
(***************************************************************************)

\* an Optional[int] of CandidateFilters: <<>> is None, <<n>> is n
Absent == <<>>
Some(n) == <<n>>

\* CandidateFilters of models/requests.py. has_email and has_any_contact are
\* only tested with "is True": FALSE stands for both None and False
CandidateFilters(loc, fmin, fmax, has_email, has_any_contact, last) ==
    [location |-> loc, followers_min |-> fmin, followers_max |-> fmax,
     has_email |-> has_email, has_any_contact |-> has_any_contact,
     last_contribution |-> last]

\* mapping.get(period, timedelta(days=365)) in days
PeriodDays(period) ==
    CASE period = "30d" -> 30
      [] period = "3m" -> 90
      [] period = "6m" -> 180
      [] OTHER -> 365

\* _parse_contribution_threshold(period) when datetime.now() = t
parse_contribution_threshold(period, t) == t - PeriodDays(period)

\* truthiness of an Optional[str] field that is kept whole
Truthy(str) == str # None /\ str # ""

\* _candidate_has_contact(candidate)
candidate_has_contact(c) ==
    Truthy(c.email) \/ Truthy(c.twitterUsername) \/ Truthy(c.websiteUrl)

UpperCase == <<"A", "B", "C", "D", "E", "F", "G", "H", "I", "J", "K", "L", "M",
               "N", "O", "P", "Q", "R", "S", "T", "U", "V", "W", "X", "Y", "Z">>
LowerCase == <<"a", "b", "c", "d", "e", "f", "g", "h", "i", "j", "k", "l", "m",
               "n", "o", "p", "q", "r", "s", "t", "u", "v", "w", "x", "y", "z">>

\* str.lower() on the characters of a string
Lower(chars) ==
    [i \in 1..Len(chars) |->
        IF \E k \in 1..26 : UpperCase[k] = chars[i]
        THEN LowerCase[CHOOSE k \in 1..26 : UpperCase[k] = chars[i]]
        ELSE chars[i]]

\* needle in hay, for strings given by their characters
IsSubstring(needle, hay) ==
    \E k \in 0..(Len(hay) - Len(needle)) :
        \A i \in 1..Len(needle) : hay[k + i] = needle[i]

\* _location_matches(candidate_location, filter_location)
location_matches(candidate_location, filter_location) ==
    IF candidate_location.kind = "none" \/ candidate_location.chars = <<>>
    THEN FALSE
    ELSE IsSubstring(Lower(filter_location.chars), Lower(candidate_location.chars))

\* the tests filter_candidates applies to one object c carrying the fields
\* location, followers, email, twitterUsername, websiteUrl and
\* lastContributionDate, when datetime.now() = t; a lastContributionDate that
\* is null or that datetime.fromisoformat rejects fails the last test
PassesFilters(c, filters, t) ==
    /\ (filters.location.kind = "str" /\ filters.location.chars # <<>>)
            => location_matches(c.location, filters.location)
    /\ filters.followers_min # Absent => c.followers >= filters.followers_min[1]
    /\ filters.followers_max # Absent => c.followers <= filters.followers_max[1]
    /\ filters.has_email => Truthy(c.email)
    /\ filters.has_any_contact => candidate_has_contact(c)
    /\ Truthy(filters.last_contribution)
            => /\ c.lastContributionDate.kind = "date"
               /\ c.lastContributionDate.day
                      >= parse_contribution_threshold(filters.last_contribution, t)

\* filters is None: no filter parameter was given
NoFilters == [none |-> TRUE]

\* filter_candidates(candidates, filters) called when datetime.now() = t
filter_candidates(cs, filters, t) ==
    IF filters = NoFilters THEN cs
    ELSE LET Keeps(c) == PassesFilters(c, filters, t)
         IN  SelectSeq(cs, Keeps)

(***************************************************************************)
(* Inputs of the scorer and ranker                                         *)
(***************************************************************************)
MaxUsers == 2
MaxTicks == 1
MaxEvals == 2

Profile(login, repos, commits, followers, seed) ==
    [login |-> login, repositories |-> repos, totalCommits |-> commits,
     followers |-> followers, contrib_score_seed |-> seed,
     location |-> IF followers > 0 THEN Text(<<"B", "e", "r", "l", "i", "n">>)
                  ELSE NoText,
     email |-> IF commits > 0 THEN login ELSE None,
     twitterUsername |-> None,
     websiteUrl |-> IF followers > 100 THEN login ELSE None,
     lastContributionDate |-> IF repos = <<>> THEN NoDate ELSE Date(-40)]

\* thirty starred repositories in nine languages, all pushed after day 0
ManyRepos ==
    [i \in 1..30 |->
        UserRepo("max/r", 1000000, FALSE,
                 {<<"lang", i % 9>>, <<"lang", (i + 1) % 9>>}, Date(100), {"big"})]

Profiles ==
    {
      \* one repository leaves the 180 day window on the first tick, the
      \* other stays inside it
      Profile("ann",
              << UserRepo("ann/a", 40, FALSE, {"Python", "Go"}, Date(-179), {"ml"}),
                 UserRepo("ann/b", 100, TRUE, {"C"}, Date(-89), {}) >>,
              150, 30, 0),
      \* bob and cat are empty profiles: both score 0
      Profile("bob", <<>>, 0, 0, 0),
      Profile("cat", <<>>, 0, 0, 0),
      \* pushedAt missing or not a date
      \* and one repository pushed 89 days before day 0
      Profile("eve",
              << UserRepo("eve/a", 60, FALSE, {"Rust"}, NoDate, {"cli"}),
                 UserRepo("eve/b", 0, FALSE, {}, BadDate, {}),
                 UserRepo("eve/c", 5, FALSE, {"Rust"}, Date(-89), {}) >>,
              20, 3, 1237),
      Profile("max", ManyRepos, 1000000, 10000, 1000000) }

InitScore ==
    /\ users \in SeqsUpTo(Profiles, MaxUsers)
    /\ now = 0
    /\ evals = <<>>
    /\ candidates = NotCalled
    /\ QueryIdle /\ PipeIdle /\ JDIdle /\ BatchIdle /\ HydIdle /\ CacheIdle /\ StoreIdle

\* time passes
Tick ==
    /\ now < MaxTicks
    /\ now' = now + 1
    /\ UNCHANGED <<users, evals, candidates, queryVars, pipeVars, jdVars, batchVars, hydVars, cacheVars, storeVars>>

\* one call of calculate_score on users[i]
CalculateScore(i) ==
    /\ Len(evals) < MaxEvals
    /\ evals' = Append(evals, [user |-> i, now |-> now,
                               score |-> calculate_score(users[i], now)])
    /\ UNCHANGED <<users, now, candidates, queryVars, pipeVars, jdVars, batchVars, hydVars, cacheVars, storeVars>>

\* one call of rank_candidates on the whole list
RankCandidates ==
    /\ candidates' = [done |-> TRUE, at |-> now, list |-> rank_candidates(users, now)]
    /\ UNCHANGED <<users, now, evals, queryVars, pipeVars, jdVars, batchVars, hydVars, cacheVars, storeVars>>

NextScore ==
    \/ Tick
    \/ \E i \in 1..Len(users) : CalculateScore(i)
    \/ RankCandidates

SpecScore == InitScore /\ [][NextScore]_vars

(***************************************************************************)
(*               QUERY BUILDER  (query_generator.py:123-213)               *)
(***************************************************************************)

RECURSIVE Join(_, _)
\* sep.join(parts)
Join(parts, sep) ==
    IF parts = <<>> THEN ""
    ELSE IF Len(parts) = 1 THEN parts[1]
    ELSE parts[1] \o sep \o Join(Tail(parts), sep)

RECURSIVE Repeat(_, _)
Repeat(str, n) == IF n = 0 THEN "" ELSE str \o Repeat(str, n - 1)

Pad2(n) == IF n < 10 THEN "0" \o ToString(n) ELSE ToString(n)

\* strftime("%Y-%m-%d") of the date `days` days after 1970-01-01
\* (proleptic Gregorian calendar, years 1000..9999)
FormatDate(days) ==
    LET z == days + 719468
        era == z \div 146097
        doe == z - era * 146097
        yoe == (doe - doe \div 1460 + doe \div 36524 - doe \div 146096) \div 365
        doy == doe - (365 * yoe + yoe \div 4 - yoe \div 100)
        mp == (5 * doy + 2) \div 153
        d == doy - (153 * mp + 2) \div 5 + 1
        m == IF mp < 10 THEN mp + 3 ELSE mp - 9
        y == yoe + era * 400 + (IF m <= 2 THEN 1 ELSE 0)
    IN  ToString(y) \o "-" \o Pad2(m) \o "-" \o Pad2(d)

\* base_filter_str: query_generator.py:141-153
BaseFilterStr(sp, t) ==
    Join((IF sp.min_repo_stars > 0
             THEN <<"stars:>" \o ToString(sp.min_repo_stars)>> ELSE <<>>)
         \o <<"pushed:>" \o FormatDate(t - sp.recency_days)>>
         \o (IF sp.exclude_forks THEN <<"fork:false">> ELSE <<>>)
         \o (IF sp.exclude_archived THEN <<"archived:false">> ELSE <<>>),
         " ")

MaxQueryLen == 256

AppendIfNew_NoLengthCheck(qs, q) ==
    IF q \notin Range(qs) THEN Append(qs, q) ELSE qs

\* if len(query) <= 256 and query not in queries: queries.append(query)
AppendIfNew(qs, q) ==
    IF Len(q) <= MaxQueryLen /\ q \notin Range(qs) THEN Append(qs, q) ELSE qs

\* if len(query) <= 256: queries.append(query)
AppendIfShort(qs, q) ==
    IF Len(q) <= MaxQueryLen THEN Append(qs, q) ELSE qs

RECURSIVE AppendAllIfNew(_, _)
AppendAllIfNew(qs, cands) ==
    IF cands = <<>> THEN qs
    ELSE AppendAllIfNew(AppendIfNew(qs, Head(cands)), Tail(cands))

RECURSIVE AppendAllIfShort(_, _)
AppendAllIfShort(qs, cands) ==
    IF cands = <<>> THEN qs
    ELSE AppendAllIfShort(AppendIfShort(qs, Head(cands)), Tail(cands))

\* s[i:i+n] of Python, i counted from 0
Slice(s, i, n) == SubSeq(s, i + 1, Min(i + n, Len(s)))

\* range(0, stop, step) of Python, as the sequence of its values
RangeStep(stop, step) == [k \in 1..((stop + step - 1) \div step) |-> (k - 1) * step]

\* the queries of two nested loops, outer over xs and inner over ys, in order
Nested(xs, ys, Q(_, _)) ==
    [k \in 1..(Len(xs) * Len(ys)) |->
        Q(xs[((k - 1) \div Len(ys)) + 1], ys[((k - 1) % Len(ys)) + 1])]

LangDomainQuery(lang, domain, base) ==
    "language:" \o lang \o " topic:" \o domain \o " " \o base

LangKeywordQuery(lang, keywords, base) ==
    "language:" \o lang \o " (" \o Join(keywords, " OR ") \o ") " \o base

\* Strategy 1 (lines 155-160): first 3 languages x first 2 domains
Strategy1Candidates(sp, base) ==
    LET Q(lang, domain) == LangDomainQuery(lang, domain, base)
    IN  Nested(Take(sp.languages, 3), Take(sp.core_domains, 2), Q)

Strategy2Candidates_GroupsOfTwo(sp, base) ==
    LET starts == RangeStep(Min(Len(sp.core_keywords), 6), 2)
        Q(lang, i) == LangKeywordQuery(lang, Slice(sp.core_keywords, i, 2), base)
    IN  Nested(Take(sp.languages, 3), starts, Q)

\* Strategy 2 (lines 162-170): first 3 languages x keyword groups of 3 taken
\* from the first 6 keywords
Strategy2Candidates(sp, base) ==
    LET starts == RangeStep(Min(Len(sp.core_keywords), 6), 3)
        Q(lang, i) == LangKeywordQuery(lang, Slice(sp.core_keywords, i, 3), base)
    IN  Nested(Take(sp.languages, 3), starts, Q)

\* Strategy 4 (lines 179-184): language only
Strategy4Candidates(sp, base) ==
    [k \in 1..Len(Take(sp.languages, 2)) |-> "language:" \o sp.languages[k] \o " " \o base]

\* Strategy 5 (lines 186-191): domain only
Strategy5Candidates(sp, base) ==
    [k \in 1..Len(Take(sp.core_domains, 3)) |-> "topic:" \o sp.core_domains[k] \o " " \o base]

\* Strategy 6 (lines 193-201): pairs of the first 6 keywords
Strategy6Candidates(sp, base) ==
    LET starts == RangeStep(Min(Len(sp.core_keywords), 6), 2)
    IN  [k \in 1..Len(starts) |->
            Join(Slice(sp.core_keywords, starts[k], 2), " ") \o " " \o base]

\* Strategy 7 (lines 203-209): generic query
Strategy7Candidates(sp, base) == <<"stars:>100 " \o base>>

RECURSIVE Dedupe(_)
\* list(dict.fromkeys(queries)): the first occurrence of each string, in order
Dedupe(qs) ==
    IF qs = <<>> THEN <<>>
    ELSE LET rest == Dedupe(SubSeq(qs, 1, Len(qs) - 1))
         IN  IF qs[Len(qs)] \in Range(rest) THEN rest ELSE Append(rest, qs[Len(qs)])

Limit_KeepLast(qs, n) == SubSeq(qs, Max(1, Len(qs) - n + 1), Len(qs))

\* unique_queries[:spec.max_repo_queries], max_repo_queries >= 0
Limit(qs, n) == Take(qs, n)

CollectQueries_AlwaysGeneric(sp, t) ==
    LET base == BaseFilterStr(sp, t)
        q1 == AppendAllIfNew(<<>>, Strategy1Candidates(sp, base))
        q2 == AppendAllIfNew(q1, Strategy2Candidates(sp, base))
    IN  AppendAllIfShort(q2, Strategy7Candidates(sp, base))

\* the list `queries` before the final dedupe and slice
CollectQueries(sp, t) ==
    LET base == BaseFilterStr(sp, t)
        q1 == AppendAllIfNew(<<>>, Strategy1Candidates(sp, base))
        q2 == AppendAllIfNew(q1, Strategy2Candidates(sp, base))
        q4 == IF q2 = <<>> /\ sp.languages # <<>>
              THEN AppendAllIfShort(q2, Strategy4Candidates(sp, base)) ELSE q2
        q5 == IF q4 = <<>> /\ sp.core_domains # <<>>
              THEN AppendAllIfNew(q4, Strategy5Candidates(sp, base)) ELSE q4
        q6 == IF q5 = <<>> /\ sp.core_keywords # <<>>
              THEN AppendAllIfNew(q5, Strategy6Candidates(sp, base)) ELSE q5
        q7 == IF q6 = <<>>
              THEN AppendAllIfShort(q6, Strategy7Candidates(sp, base)) ELSE q6
    IN  q7

\* generate_repo_queries(spec) called on day t
generate_repo_queries(sp, t) == Limit(Dedupe(CollectQueries(sp, t)), sp.max_repo_queries)

(***************************************************************************)
(* Inputs of the query builder                                             *)
(***************************************************************************)
MaxKeywords == 7
MaxRepoQueries == 8

LongWord == Repeat("verylongword", 20)
MidWord == Repeat("midword", 12)

LanguageLists ==
    { <<>>, <<"Python">>, <<"Python", "Go">>, <<"Go", "Go">>, <<LongWord, "Python">>,
      <<"Python", "Go", "Rust">>, <<"Python", "Go", "Rust", "Java">> }

DomainLists ==
    { <<>>, <<"backend">>, <<"backend", "machine-learning">>, <<"backend", "backend">>,
      <<LongWord, "backend", "devops">> }

KeywordPools ==
    { <<"kafka", "grpc", "kubernetes", "docker", "redis", "postgres", "spark",
        "airflow", "celery">>,
      <<"kafka", "kafka", MidWord, MidWord \o "x", MidWord \o "y", "redis",
        "redis", "spark", "celery">> }

\* (min_repo_stars, exclude_forks, exclude_archived)
BaseChoices == { <<20, TRUE, TRUE>>, <<0, FALSE, FALSE>>, <<50, TRUE, FALSE>> }

\* GitScoutJDSpec (models/jd_spec.py); numeric fields are non-negative
JDSpec(langs, domains, keywords, base, maxq) ==
    [languages |-> langs, core_domains |-> domains, core_keywords |-> keywords,
     nice_keywords |-> <<>>, recency_days |-> 365,
     min_repo_stars |-> base[1], exclude_forks |-> base[2],
     exclude_archived |-> base[3], min_followers |-> 0,
     max_repo_queries |-> maxq, max_repos_per_query |-> 20]

InitQuery ==
    /\ \E langs \in LanguageLists, domains \in DomainLists, pool \in KeywordPools,
          k \in 0..MaxKeywords, base \in BaseChoices, maxq \in 0..MaxRepoQueries :
          spec = JDSpec(langs, domains, Take(pool, k), base, maxq)
    /\ today = 20454 + 306
    /\ queries = NotCalled
    /\ ScoreIdle /\ PipeIdle /\ JDIdle /\ BatchIdle /\ HydIdle /\ CacheIdle /\ StoreIdle

\* the call generate_repo_queries(spec)
GenerateRepoQueries ==
    /\ ~queries.done
    /\ queries' = [done |-> TRUE, list |-> generate_repo_queries(spec, today)]
    /\ UNCHANGED <<spec, today, scoreVars, pipeVars, jdVars, batchVars, hydVars, cacheVars, storeVars>>

NextQuery == GenerateRepoQueries

SpecQuery == InitQuery /\ [][NextQuery]_vars

(***************************************************************************)
(*        REPO-FIRST PIPELINE  (repo_pipeline.py, github/client.py)        *)
(***************************************************************************)

\* a node of a search response: null, or a repository as parse_repo_data
\* returns it (client.py:377-391)
NullNode == [kind |-> "null"]
RepoNode(owner, name, stars, fork, archived, pushed) ==
    [kind |-> "repo", nameWithOwner |-> owner \o "/" \o name, owner_login |-> owner,
     name |-> name, stargazerCount |-> stars, isFork |-> fork,
     isArchived |-> archived, pushedAt |-> pushed]

\* repo_pipeline.py:50-60: one node of a search response
AddNode_NoDedup(acc, node, c) ==
    IF node.kind = "null" THEN acc
    ELSE IF node.isFork /\ c.exclude_forks THEN acc
    ELSE IF node.isArchived /\ c.exclude_archived THEN acc
    ELSE [acc EXCEPT !.repos = Append(@, node),
                     !.seen = @ \cup {node.nameWithOwner},
                     !.dups = IF node.nameWithOwner \in acc.seen THEN @ + 1 ELSE @]

AddNode(acc, node, c) ==
    IF node.kind = "null" THEN acc
    ELSE IF node.nameWithOwner \in acc.seen THEN [acc EXCEPT !.dups = @ + 1]
    ELSE IF node.isFork /\ c.exclude_forks THEN acc
    ELSE IF node.isArchived /\ c.exclude_archived THEN acc
    ELSE [acc EXCEPT !.repos = Append(@, node),
                     !.seen = @ \cup {node.nameWithOwner}]

RECURSIVE AddNodes(_, _, _)
\* repo_pipeline.py:50-60: the nodes of one search response, in order
AddNodes(acc, nodes, c) ==
    IF nodes = <<>> THEN acc
    ELSE AddNodes(AddNode(acc, Head(nodes), c), Tail(nodes), c)

\* comparing the sort keys (stargazerCount, pushedAt) of two repositories
\* raises TypeError when the stars are equal and one pushedAt is None, the
\* other a string
KeysIncomparable(a, b) ==
    /\ a.stargazerCount = b.stargazerCount
    /\ a.pushedAt.kind # b.pushedAt.kind

\* A comparison sort has to compare, directly, two elements of every group of
\* equal stars that holds both kinds of pushedAt: the sort raises exactly then.
SortRaises(repos) ==
    \E i, j \in 1..Len(repos) : KeysIncomparable(repos[i], repos[j])

PushedDay(r) == IF r.pushedAt.kind = "date" THEN r.pushedAt.day ELSE 0

RepoKeyGE_StarsOnly(a, b) == a.stargazerCount >= b.stargazerCount

\* key(a) >= key(b) for comparable keys
RepoKeyGE(a, b) ==
    \/ a.stargazerCount > b.stargazerCount
    \/ a.stargazerCount = b.stargazerCount /\ PushedDay(a) >= PushedDay(b)

InsertRepo(sorted, r) ==
    LET k == Cardinality({i \in 1..Len(sorted) : RepoKeyGE(sorted[i], r)})
    IN  SubSeq(sorted, 1, k) \o <<r>> \o SubSeq(sorted, k + 1, Len(sorted))

RECURSIVE SortRepos(_)
\* all_repos.sort(key=(stargazerCount, pushedAt), reverse=True): stable
SortRepos(repos) ==
    IF repos = <<>> THEN <<>>
    ELSE InsertRepo(SortRepos(SubSeq(repos, 1, Len(repos) - 1)), repos[Len(repos)])

\* one entry of a contributors response (REST /repos/{owner}/{repo}/contributors)
Contributor(login, node_id, contributions, type) ==
    [login |-> login, node_id |-> node_id, contributions |-> contributions,
     type |-> type]

\* client.py:228: c.get("type") == "User"
IsUser(c) == c.type = "User"

\* client.py:221-229: the entries of type "User", in order
UserContributors(entries) == SelectSeq(entries, IsUser)

\* contributors_by_repo.get(repo_key, [])
ContributorsOf(byRepo, key) == IF key \in DOMAIN byRepo THEN byRepo[key] ELSE <<>>

\* d[key] = value on a dict held as a function
Put(d, key, value) == (key :> value) @@ d

\* Fixed point for the score seed: one unit is 1/6,000,000.
\* min(stars / 100.0, 10.0) in hundredths
RepoWeight(r) == Min(r.stargazerCount, 1000)

\* 1.0 / (rank + 1) in sixtieths (exact for rank <= 5)
RankFactor(rank) == 60 \div (rank + 1)

\* math.log(n) in thousandths, for the contribution counts of the model
LnMilli(n) ==
    CASE n = 1 -> 0
      [] n = 2 -> 693
      [] n = 6 -> 1792
      [] n = 11 -> 2398
      [] n = 51 -> 3932

\* repo_weight * rank_factor * contrib_factor
ScoreDelta(r, rank, contrib) ==
    RepoWeight(r) * RankFactor(rank) * LnMilli(contrib.contributions + 1)

AddScore_Overwrite(total, delta) == delta

\* contributor_scores[login] += delta (a defaultdict(float): 0.0 at first)
AddScore(total, delta) == total + delta

\* repo_pipeline.py:102: the (1-based) positions whose entry has a login and a
\* node_id
ValidRanks(contributors) ==
    {k \in 1..Len(contributors) :
        contributors[k].login # "" /\ contributors[k].node_id # ""}

RanksOf(contributors, login) ==
    {k \in ValidRanks(contributors) : contributors[k].login = login}

MaxOf(S) == CHOOSE x \in S : \A y \in S : y <= x
MinOf(S) == CHOOSE x \in S : \A y \in S : x <= y

RECURSIVE AddScores(_, _, _, _)
\* repo_pipeline.py:104-107 for the entries of one login at `ranks`, in
\* list order
AddScores(total, r, contributors, ranks) ==
    IF ranks = {} THEN total
    ELSE LET k == MaxOf(ranks)
         IN  AddScore(AddScores(total, r, contributors, ranks \ {k}),
                      ScoreDelta(r, k - 1, contributors[k]))

\* repo_pipeline.py:97-107: the loop over enumerate(contributors) of
\* repository r. contributor_scores is held as the list of its items in
\* insertion order: the logins already present keep their place, the new
\* ones follow in the order they are first met; contributor_node_ids takes
\* the node_id of the last entry of each login.
AddContributors(acc, r, contributors) ==
    LET valid == ValidRanks(contributors)
        logins == {contributors[k].login : k \in valid}
        old == {acc.scores[i].login : i \in 1..Len(acc.scores)}
        IsFirst(k) == /\ k \in valid
                      /\ contributors[k].login \notin old
                      /\ k = MinOf(RanksOf(contributors, contributors[k].login))
        firsts == SelectSeq([k \in 1..Len(contributors) |-> k], IsFirst)
        updated == [i \in 1..Len(acc.scores) |->
                      [login |-> acc.scores[i].login,
                       score |-> AddScores(acc.scores[i].score, r, contributors,
                                           RanksOf(contributors, acc.scores[i].login))]]
        added == [m \in 1..Len(firsts) |->
                    [login |-> contributors[firsts[m]].login,
                     score |-> AddScores(0, r, contributors,
                                  RanksOf(contributors, contributors[firsts[m]].login))]]
    IN  [scores |-> updated \o added,
         ids |-> [l \in DOMAIN acc.ids \cup logins |->
                    IF l \in logins
                    THEN contributors[MaxOf(RanksOf(contributors, l))].node_id
                    ELSE acc.ids[l]],
         first |-> [l \in DOMAIN acc.first \cup logins |->
                      IF l \in DOMAIN acc.first THEN acc.first[l]
                      ELSE contributors[MinOf(RanksOf(contributors, l))].node_id]]

RECURSIVE AggregateRepos(_, _, _, _)
\* repo_pipeline.py:91-107: the first n rounds of the loop over top_repos
AggregateRepos(acc, repos, n, byRepo) ==
    IF n = 0 THEN acc
    ELSE AddContributors(AggregateRepos(acc, repos, n - 1, byRepo), repos[n],
                         ContributorsOf(byRepo, repos[n].nameWithOwner))

TopContributors == 50

\* sorted(items, key=score, reverse=True): the item at position i goes behind
\* every item with a greater score and every earlier item with the same score
SortItemsByScore(items) ==
    LET n == Len(items)
        pos == <<>> \o [i \in 1..n |->
                         1 + Cardinality({j \in 1..n :
                                 \/ items[j].score > items[i].score
                                 \/ items[j].score = items[i].score /\ j < i})]
    IN  [k \in 1..n |-> items[CHOOSE i \in 1..n : pos[i] = k]]

SortedContributors_FirstFifty(scores) == Take(scores, TopContributors)

\* sorted(contributor_scores.items(), key=score, reverse=True)[:50]
SortedContributors(scores) == Take(SortItemsByScore(scores), TopContributors)

\* repo_pipeline.py:122-126
TopNodeIds(scores, ids) ==
    LET HasId(item) == item.login \in DOMAIN ids
        kept == SelectSeq(SortedContributors(scores), HasId)
    IN  [k \in 1..Len(kept) |-> ids[kept[k].login]]

EmptyResult == [done |-> TRUE, users |-> <<>>, scores |-> <<>>]

(***************************************************************************)
(* Inputs of the pipeline                                                  *)
(***************************************************************************)
NumQueries == 2
MaxNodes == 2
MaxReposArg == 2
HydrateBatchSize == 2

\* the nodes the search API may return
SearchNodes ==
    { NullNode,
      RepoNode("a", "x", 500, FALSE, FALSE, Date(10)),
      \* the same repository found again after it gained stars
      RepoNode("a", "x", 700, FALSE, FALSE, Date(20)),
      \* as many stars as a/x, never pushed
      RepoNode("b", "y", 500, FALSE, FALSE, NoDate),
      \* as many stars as a/x, pushed later
      RepoNode("d", "w", 500, FALSE, FALSE, Date(30)),
      RepoNode("c", "z", 50, TRUE, TRUE, Date(5)) }

CrowdSize == 50

\* a long list (contributors_per_repo is configurable) of users with no
\* counted contribution
Crowd ==
    [k \in 1..CrowdSize |->
        Contributor("u" \o ToString(k), "N-u" \o ToString(k), 0, "User")]

\* the contributor lists the contributors API may return
ContributorLists ==
    { <<>>, Crowd,
      << Contributor("alice", "N-alice", 50, "User"),
         Contributor("bob", "N-bob", 10, "User") >>,
      << Contributor("bob", "N-bob", 5, "User") >>,
      \* a bot ahead of the users, bob under another handle
      << Contributor("ci-bot", "N-bot", 50, "Bot"),
         Contributor("bob", "N-bob-2", 10, "User"),
         Contributor("alice", "N-alice", 1, "User") >>,
      \* an entry without node_id ahead of carol
      << Contributor("ghost", "", 10, "User"),
         Contributor("carol", "N-carol", 0, "User") >> }

InitPipeline ==
    /\ pc = "search"
    /\ \E flag \in BOOLEAN :
          cfg = [queries |-> [i \in 1..NumQueries |-> <<"query", i>>],
                 exclude_forks |-> flag, exclude_archived |-> flag,
                 max_repos |-> MaxReposArg]
    /\ qi = 1
    /\ all_repos = <<>> /\ seen_repos = {} /\ top_repos = <<>>
    /\ dup_nodes = 0
    /\ hist = [found |-> {}, failed |-> 0, batches |-> <<>>, nulls |-> {}]
    /\ ci = 0 /\ contributors_by_repo = <<>>
    /\ contributor_scores = <<>> /\ contributor_node_ids = <<>>
    /\ first_node_ids = <<>>
    /\ hydrated = <<>> /\ hi = 0 /\ top_node_ids = <<>>
    /\ result = NotCalled /\ raised = ""
    /\ requests = [search |-> 0, contributors |-> 0, hydrate |-> 0]
    /\ ScoreIdle /\ QueryIdle /\ JDIdle /\ BatchIdle /\ HydIdle /\ CacheIdle /\ StoreIdle

aggVars == <<contributor_scores, contributor_node_ids, first_node_ids, top_node_ids>>

\* repo_pipeline.py:109-139 up to the first hydration request: the contributor
\* stage returned byRepo
Aggregate(byRepo) ==
    LET acc == AggregateRepos([scores |-> <<>>, ids |-> <<>>, first |-> <<>>],
                              top_repos, Len(top_repos), byRepo)
        ids == TopNodeIds(acc.scores, acc.ids)
    IN  /\ contributor_scores' = acc.scores
        /\ contributor_node_ids' = acc.ids
        /\ first_node_ids' = acc.first
        /\ IF DOMAIN acc.ids = {}
           THEN /\ pc' = "done"
                /\ result' = EmptyResult
                /\ top_node_ids' = <<>>
                /\ hi' = 0
           ELSE /\ top_node_ids' = ids
                /\ IF ids # <<>>
                   THEN /\ pc' = "hydrate" /\ hi' = 1 /\ result' = result
                   ELSE /\ pc' = "done" /\ hi' = 0
                        /\ result' = [done |-> TRUE, users |-> <<>>,
                                      scores |-> SortedContributors(acc.scores)]

\* repo_pipeline.py:63-80: what follows the search of query number qi
AfterQuery(repos, seen, dups) ==
    /\ seen_repos' = seen
    /\ dup_nodes' = dups
    /\ qi' = qi + 1
    /\ IF qi < Len(cfg.queries)
       THEN /\ pc' = "search"
            /\ all_repos' = repos
            /\ UNCHANGED <<top_repos, ci, result, raised>>
       ELSE IF repos = <<>>
       THEN /\ pc' = "done"
            /\ result' = EmptyResult
            /\ all_repos' = repos
            /\ UNCHANGED <<top_repos, ci, raised>>
       ELSE IF SortRaises(repos)
       THEN /\ pc' = "done"
            /\ raised' = "TypeError"
            /\ all_repos' = repos
            /\ UNCHANGED <<top_repos, ci, result>>
       ELSE /\ pc' = "contributors"
            /\ all_repos' = SortRepos(repos)
            /\ top_repos' = Take(SortRepos(repos), cfg.max_repos)
            /\ ci' = 1
            /\ UNCHANGED <<result, raised>>

\* history: the names of the nodes of a response that are repositories and
\* pass the fork and archived filters
KeptNames(nodes, c) ==
    {nodes[i].nameWithOwner : i \in
        {j \in 1..Len(nodes) :
            /\ nodes[j].kind = "repo"
            /\ ~(nodes[j].isFork /\ c.exclude_forks)
            /\ ~(nodes[j].isArchived /\ c.exclude_archived)}}

SearchFailed_Propagates ==
    /\ pc = "search"
    /\ requests' = [requests EXCEPT !.search = @ + 1]
    /\ pc' = "done"
    /\ raised' = "SearchError"
    /\ hist' = [hist EXCEPT !.failed = @ + 1]
    /\ UNCHANGED <<cfg, qi, all_repos, seen_repos, dup_nodes, top_repos, ci,
                   contributors_by_repo,
                   aggVars, hydrated, hi, result, scoreVars, queryVars, jdVars, batchVars, hydVars, cacheVars, storeVars>>

\* repo_pipeline.py:61-63: search_repos raised (transport error after the
\* retries, HTTP error, GraphQL error list); the query is skipped
SearchFailed ==
    /\ pc = "search"
    /\ requests' = [requests EXCEPT !.search = @ + 1]
    /\ AfterQuery(all_repos, seen_repos, dup_nodes)
    /\ hist' = [hist EXCEPT !.failed = @ + 1]
    /\ UNCHANGED <<cfg, contributors_by_repo, aggVars, hydrated, hi,
                   scoreVars, queryVars, jdVars, batchVars, hydVars, cacheVars, storeVars>>

\* repo_pipeline.py:47-60: search_repos answered with `nodes`
SearchReturned(nodes) ==
    /\ pc = "search"
    /\ requests' = [requests EXCEPT !.search = @ + 1]
    /\ LET acc == AddNodes([repos |-> all_repos, seen |-> seen_repos,
                             dups |-> dup_nodes], nodes, cfg)
       IN  AfterQuery(acc.repos, acc.seen, acc.dups)
    /\ hist' = [hist EXCEPT !.found = @ \cup KeptNames(nodes, cfg)]
    /\ UNCHANGED <<cfg, contributors_by_repo, aggVars, hydrated, hi,
                   scoreVars, queryVars, jdVars, batchVars, hydVars, cacheVars, storeVars>>

\* client.py:256-282: the fetch for top_repos[ci] ended; `answer` is the list
\* get_contributors returned, or "failed" when it raised
ContributorsFetched(answer) ==
    /\ pc = "contributors"
    /\ LET r == top_repos[ci]
           key == r.owner_login \o "/" \o r.name
           issued == r.owner_login # "" /\ r.name # ""
           list == IF answer.ok THEN UserContributors(answer.entries) ELSE <<>>
           byRepo == IF issued THEN Put(contributors_by_repo, key, list)
                     ELSE contributors_by_repo
       IN  /\ requests' = [requests EXCEPT
                              !.contributors = IF issued THEN @ + 1 ELSE @]
           /\ contributors_by_repo' = byRepo
           /\ top_repos' = top_repos
           /\ IF ci < Len(top_repos)
              THEN /\ ci' = ci + 1
                   /\ UNCHANGED <<pc, aggVars, hi, result>>
              ELSE /\ ci' = ci
                   /\ Aggregate(byRepo)
    /\ UNCHANGED <<cfg, qi, all_repos, seen_repos, dup_nodes, hist, hydrated, raised,
                   scoreVars, queryVars, jdVars, batchVars, hydVars, cacheVars, storeVars>>

HydrateBatch_DropsLast == Slice(top_node_ids, hi - 1, HydrateBatchSize - 1)

\* client.py:307-308: batch = node_ids[i:i + batch_size], i = hi - 1
HydrateBatch == Slice(top_node_ids, hi - 1, HydrateBatchSize)

\* client.py:307-342: the request for the batch starting at hi raised
HydrateFailed ==
    /\ pc = "hydrate"
    /\ requests' = [requests EXCEPT !.hydrate = @ + 1]
    /\ pc' = "done"
    /\ raised' = "HydrateError"
    /\ hist' = [hist EXCEPT !.batches = Append(@, HydrateBatch)]
    /\ UNCHANGED <<cfg, qi, all_repos, seen_repos, dup_nodes, top_repos, ci,
                   contributors_by_repo,
                   aggVars, hydrated, hi, result, scoreVars, queryVars, jdVars, batchVars, hydVars, cacheVars, storeVars>>

RECURSIVE NonNullNodes(_, _)
\* client.py:336-338: the nodes of the response to `batch` that are not null
NonNullNodes(batch, nulls) ==
    IF batch = <<>> THEN <<>>
    ELSE (IF Head(batch) \in nulls THEN <<>> ELSE <<[id |-> Head(batch)]>>)
         \o NonNullNodes(Tail(batch), nulls)

\* client.py:307-342: the batch starting at hi was answered; the handles of
\* `nulls` came back as null nodes
HydrateReturned(nulls) ==
    /\ pc = "hydrate"
    /\ requests' = [requests EXCEPT !.hydrate = @ + 1]
    /\ LET nodes == NonNullNodes(HydrateBatch, nulls)
       IN  /\ hydrated' = hydrated \o nodes
           /\ hi' = hi + HydrateBatchSize
           /\ IF hi + HydrateBatchSize <= Len(top_node_ids)
              THEN UNCHANGED <<pc, result>>
              ELSE /\ pc' = "done"
                   /\ result' = [done |-> TRUE, users |-> hydrated \o nodes,
                                 scores |-> SortedContributors(contributor_scores)]
    /\ hist' = [hist EXCEPT !.batches = Append(@, HydrateBatch),
                            !.nulls = @ \cup (nulls \cap Range(HydrateBatch))]
    /\ UNCHANGED <<cfg, qi, all_repos, seen_repos, dup_nodes, top_repos, ci,
                   contributors_by_repo,
                   aggVars, raised, scoreVars, queryVars, jdVars, batchVars, hydVars, cacheVars, storeVars>>

ContributorAnswers ==
    {[ok |-> FALSE, entries |-> <<>>]}
    \cup {[ok |-> TRUE, entries |-> l] : l \in ContributorLists}

NextPipeline ==
    \/ SearchFailed
    \/ \E nodes \in SeqsUpTo(SearchNodes, MaxNodes) : SearchReturned(nodes)
    \/ \E answer \in ContributorAnswers : ContributorsFetched(answer)
    \/ HydrateFailed
    \/ \E nulls \in SUBSET {"N-bob", "N-carol"} : HydrateReturned(nulls)

SpecPipeline == InitPipeline /\ [][NextPipeline]_vars

(***************************************************************************)
(*      CONTRIBUTOR BATCH  (github/client.py:15-62, 180-282)               *)
(***************************************************************************)
\* client.py:17: max_retries of _retry_request
MaxRetries == 3

\* the outcomes of one contributors request
ListAnswer(l) == [kind |-> "list", entries |-> l]
\* client.py:209-210: status 404
NotFound == [kind |-> "404"]
\* a status outside 502/503/504, or any exception _retry_request does not catch
HttpError == [kind |-> "error"]
\* 502/503/504, ConnectTimeout, ReadTimeout, RemoteProtocolError
Transient == [kind |-> "transient"]
NoAnswer == [kind |-> "none"]

\* the fetch_with_limit coroutine of one repository. state: "none" (no task:
\* owner or name missing), "pending" (waiting for the semaphore), "request"
\* (inside the semaphore, request sent), "sleep" (inside the semaphore,
\* waiting before the next attempt), "done" (returned), "failed" (raised)
Task(state, attempt, answer, res) ==
    [state |-> state, attempt |-> attempt, answer |-> answer, result |-> res]

\* client.py:262
HasTask(repo) == repo.owner # "" /\ repo.name # ""

\* client.py:264
RepoKey(repo) == repo.owner \o "/" \o repo.name

CanAcquire_Always(sem) == TRUE

\* asyncio.Semaphore.acquire returns without waiting iff the value is positive
CanAcquire(sem) == sem > 0

InsideSemaphore(ts) == {i \in 1..Len(ts) : ts[i].state \in {"request", "sleep"}}

Settled_FirstException(ts) ==
    \/ \E i \in 1..Len(ts) : ts[i].state = "failed"
    \/ \A i \in 1..Len(ts) : ts[i].state \in {"none", "done", "failed"}

\* client.py:267: gather(*tasks, return_exceptions=True) returns when every
\* task has returned or raised
Settled(ts) == \A i \in 1..Len(ts) : ts[i].state \in {"none", "done", "failed"}

\* client.py:269-276: zip(repo_keys, results); an exception becomes []
GatherDict(repos, ts) ==
    LET tasked == {i \in 1..Len(ts) : ts[i].state # "none"}
    IN  [k \in {RepoKey(repos[i]) : i \in tasked} |->
            LET i == MaxOf({j \in tasked : RepoKey(repos[j]) = k})
            IN  IF ts[i].state = "failed" THEN <<>> ELSE ts[i].result]

\* client.py:256-258: `async with semaphore` is entered by task i
Acquire(i) ==
    /\ bpc = "gather"
    /\ tasks[i].state = "pending"
    /\ CanAcquire(semaphore)
    /\ semaphore' = semaphore - 1
    /\ tasks' = [tasks EXCEPT ![i].state = "request"]
    /\ UNCHANGED <<bpc, batch_args, batch_result, scoreVars, queryVars, pipeVars, jdVars, hydVars, cacheVars, storeVars>>

\* client.py:39-62, 202-231: the request of task i ended with `answer`
Respond(i, answer) ==
    /\ bpc = "gather"
    /\ tasks[i].state = "request"
    /\ IF answer.kind = "list"
       THEN /\ tasks' = [tasks EXCEPT ![i] =
                            Task("done", @.attempt, answer,
                                 UserContributors(answer.entries))]
            /\ semaphore' = semaphore + 1
       ELSE IF answer.kind = "404"
       THEN /\ tasks' = [tasks EXCEPT ![i] = Task("done", @.attempt, answer, <<>>)]
            /\ semaphore' = semaphore + 1
       ELSE IF answer.kind = "transient" /\ tasks[i].attempt < MaxRetries
       THEN /\ tasks' = [tasks EXCEPT ![i].state = "sleep"]
            /\ semaphore' = semaphore
       ELSE /\ tasks' = [tasks EXCEPT ![i] = Task("failed", @.attempt, answer, <<>>)]
            /\ semaphore' = semaphore + 1
    /\ UNCHANGED <<bpc, batch_args, batch_result, scoreVars, queryVars, pipeVars, jdVars, hydVars, cacheVars, storeVars>>

\* client.py:45-51, 54-60: asyncio.sleep(delay) of task i is over, the loop
\* goes to the next attempt
WakeUp(i) ==
    /\ bpc = "gather"
    /\ tasks[i].state = "sleep"
    /\ tasks' = [tasks EXCEPT ![i].state = "request", ![i].attempt = @ + 1]
    /\ UNCHANGED <<bpc, batch_args, semaphore, batch_result,
                   scoreVars, queryVars, pipeVars, jdVars, hydVars, cacheVars, storeVars>>

\* client.py:267-282: gather returns, the dictionary is built and returned
GatherReturn ==
    /\ bpc = "gather"
    /\ Settled(tasks)
    /\ bpc' = "done"
    /\ batch_result' = [done |-> TRUE, by_repo |-> GatherDict(batch_args.repos, tasks)]
    /\ UNCHANGED <<batch_args, semaphore, tasks, scoreVars, queryVars, pipeVars, jdVars, hydVars, cacheVars, storeVars>>

(***************************************************************************)
(* Inputs of the contributor batch                                         *)
(***************************************************************************)
NumBatchRepos == 3
MaxConcurrent == 2

\* the repositories of the call; the one at `nameless` has no name
BatchRepos(nameless) ==
    [i \in 1..NumBatchRepos |->
        [owner |-> "o" \o ToString(i),
         name |-> IF i = nameless THEN "" ELSE "r" \o ToString(i)]]

BatchAnswers ==
    { ListAnswer(<< Contributor("alice", "N-alice", 50, "User") >>),
      ListAnswer(<< Contributor("ci-bot", "N-bot", 50, "Bot"),
                    Contributor("bob", "N-bob", 10, "User") >>),
      NotFound, HttpError, Transient }

\* client.py:250-266: the state when gather is awaited
InitBatch ==
    /\ bpc = "gather"
    /\ \E nameless \in 0..NumBatchRepos, m \in 1..MaxConcurrent :
          /\ batch_args = [repos |-> BatchRepos(nameless), max_concurrent |-> m]
          /\ semaphore = m
          /\ tasks = [i \in 1..NumBatchRepos |->
                        Task(IF HasTask(BatchRepos(nameless)[i]) THEN "pending"
                             ELSE "none", 0, NoAnswer, <<>>)]
    /\ batch_result = NotCalled
    /\ ScoreIdle /\ QueryIdle /\ PipeIdle /\ JDIdle /\ HydIdle /\ CacheIdle /\ StoreIdle

NextBatch ==
    \/ \E i \in 1..NumBatchRepos : Acquire(i)
    \/ \E i \in 1..NumBatchRepos, answer \in BatchAnswers : Respond(i, answer)
    \/ \E i \in 1..NumBatchRepos : WakeUp(i)
    \/ GatherReturn

SpecBatch == InitBatch /\ [][NextBatch]_vars

(***************************************************************************)
(*      PROFILE HYDRATION  (github/client.py:15-62, 284-342)               *)
(***************************************************************************)
\* client.py:19: retryable_statuses
RetryableStatuses == {502, 503, 504}
\* client.py:53: the exceptions _retry_request catches besides HTTPStatusError
RetryableExceptions == {"ConnectTimeout", "ReadTimeout", "RemoteProtocolError"}

\* client.py:18: base_delay = 1.0 second, in tenths of a second
BaseDelay == 10
\* random.uniform(0, 1), in tenths of a second
Jitters == {0, 10}

\* the outcomes of one call of make_request (client.py:315-324)
DataResponse(nulls) == [kind |-> "data", nulls |-> nulls]
ErrorsResponse == [kind |-> "graphql_errors"]
StatusError(code) == [kind |-> "status", code |-> code]
Exception(name) == [kind |-> "exception", name |-> name]

ExcName(resp) ==
    IF resp.kind = "status" THEN "HTTPStatusError " \o ToString(resp.code)
    ELSE resp.name

IsFailure(resp) == resp.kind \in {"status", "exception"}

Retryable_AnyStatus(resp) ==
    \/ resp.kind = "status"
    \/ resp.kind = "exception" /\ resp.name \in RetryableExceptions

\* client.py:41-43, 53: the failures after which the loop goes on
Retryable(resp) ==
    \/ resp.kind = "status" /\ resp.code \in RetryableStatuses
    \/ resp.kind = "exception" /\ resp.name \in RetryableExceptions

Delay_NoDoubling(attempt, jitter) == BaseDelay + jitter

\* client.py:46, 56: delay = base_delay * (2 ** attempt) + random.uniform(0, 1)
Delay(attempt, jitter) == BaseDelay * (2 ^ attempt) + jitter

\* one HTTP attempt as recorded in h_log; wait = -1 when no sleep follows
Attempt(attempt, resp, wait) == [attempt |-> attempt, resp |-> resp, wait |-> wait]

\* client.py:307-308: batch = node_ids[i:i + batch_size]
BatchAt(args, i) == Slice(args.node_ids, i, args.batch_size)

hydFrame == <<scoreVars, queryVars, pipeVars, jdVars, batchVars, cacheVars, storeVars>>

\* the exception `name` leaves _retry_request and hydrate_users after the
\* attempt `try`
HRaise(name, try) ==
    /\ hpc' = "done"
    /\ h_raised' = name
    /\ h_log' = Append(h_log, try)
    /\ UNCHANGED <<h_i, h_attempt, all_users, h_out, h_sent>>

\* client.py:326-338 after a response without failure, and the next round of
\* the loop of line 307 (a new call of _retry_request) or the return
HAnswered(resp) ==
    IF resp.kind = "graphql_errors"
    THEN HRaise("ValueError", Attempt(h_attempt, resp, -1)) /\ UNCHANGED h_last
    ELSE LET got == all_users \o NonNullNodes(BatchAt(h_args, h_i), resp.nulls)
         IN  /\ all_users' = got
             /\ h_raised' = h_raised
             /\ IF h_i + h_args.batch_size < Len(h_args.node_ids)
                THEN /\ h_i' = h_i + h_args.batch_size
                     /\ h_attempt' = 0 /\ h_last' = ""
                     /\ hpc' = "request"
                     /\ h_out' = h_out
                     /\ h_log' = <<>>
                     /\ h_sent' = Append(h_sent, h_i + h_args.batch_size)
                ELSE /\ hpc' = "done"
                     /\ h_out' = [done |-> TRUE, users |-> got]
                     /\ h_log' = Append(h_log, Attempt(h_attempt, resp, -1))
                     /\ UNCHANGED <<h_i, h_attempt, h_last, h_sent>>

\* client.py:39-62: make_request of the current attempt ended with `resp`;
\* `jitter` is the value random.uniform returns if the loop sleeps
HRespond(resp, jitter) ==
    /\ hpc = "request"
    /\ IF ~IsFailure(resp)
       THEN HAnswered(resp)
       ELSE IF ~Retryable(resp)
       THEN HRaise(ExcName(resp), Attempt(h_attempt, resp, -1)) /\ UNCHANGED h_last
       ELSE IF h_attempt < MaxRetries
       THEN /\ hpc' = "sleep"
            /\ h_last' = ExcName(resp)
            /\ h_log' = Append(h_log, Attempt(h_attempt, resp, Delay(h_attempt, jitter)))
            /\ UNCHANGED <<h_i, h_attempt, all_users, h_out, h_raised, h_sent>>
       ELSE /\ HRaise(ExcName(resp), Attempt(h_attempt, resp, -1))
            /\ h_last' = ExcName(resp)
    /\ UNCHANGED <<h_args, hydFrame>>

\* client.py:51, 60: asyncio.sleep(delay) is over; next round of the loop of
\* line 38
HWake ==
    /\ hpc = "sleep"
    /\ hpc' = "request"
    /\ h_attempt' = h_attempt + 1
    /\ UNCHANGED <<h_args, h_i, h_last, all_users, h_out, h_raised, h_log, h_sent,
                   hydFrame>>

(***************************************************************************)
(* Inputs of the hydration                                                 *)
(***************************************************************************)
MaxHandles == 3

Handles(n) == [k \in 1..n |-> "N" \o ToString(k)]

HydrateResponses ==
    {DataResponse({}), DataResponse({"N2"}), ErrorsResponse, StatusError(500)}
    \cup {StatusError(c) : c \in RetryableStatuses}
    \cup {Exception(n) : n \in RetryableExceptions \cup {"ConnectError"}}

\* client.py:295-307: the state at the first request, or at the return when
\* there is no handle
InitHydrate ==
    /\ \E n \in 0..MaxHandles :
          /\ h_args = [node_ids |-> Handles(n), batch_size |-> HydrateBatchSize]
          /\ hpc = IF n = 0 THEN "done" ELSE "request"
          /\ h_out = IF n = 0 THEN [done |-> TRUE, users |-> <<>>] ELSE NotCalled
    /\ h_i = 0 /\ h_attempt = 0 /\ h_last = ""
    /\ all_users = <<>> /\ h_raised = "" /\ h_log = <<>>
    /\ h_sent = IF Len(h_args.node_ids) = 0 THEN <<>> ELSE <<0>>
    /\ ScoreIdle /\ QueryIdle /\ PipeIdle /\ JDIdle /\ BatchIdle /\ CacheIdle /\ StoreIdle

NextHydrate ==
    \/ \E resp \in HydrateResponses, jitter \in Jitters : HRespond(resp, jitter)
    \/ HWake

SpecHydrate == InitHydrate /\ [][NextHydrate]_vars

(***************************************************************************)
(*          SPEC EXTRACTOR  (query_generator.py:14-120, llm/*.py)          *)
(***************************************************************************)

\* the abstract methods of LLMProvider (llm/base.py:153-179)
AbstractMethods ==
    {"generate_search_query", "generate_jd_spec", "rewrite_vague_query",
     "generate_skills_analysis"}

\* the methods each provider class defines (llm/mock.py, gemini.py, groq.py,
\* ollama.py)
DefinedMethods(provider) ==
    CASE provider = "mock" -> {"generate_search_query", "generate_jd_spec"}
      [] provider = "gemini" -> AbstractMethods
      [] provider = "groq" -> {"generate_search_query", "generate_jd_spec"}
      [] provider = "ollama" -> AbstractMethods

NeedsApiKey(provider) == provider \in {"gemini", "groq"}

\* Instantiating a provider class: "" when it succeeds, else the exception.
\* A subclass of an ABC that leaves an abstract method undefined cannot be
\* instantiated (TypeError, before __init__ runs); the __init__ of gemini and
\* groq raises ValueError without their API key.
Construct(provider, api_key_set) ==
    IF ~(AbstractMethods \subseteq DefinedMethods(provider)) THEN "TypeError"
    ELSE IF NeedsApiKey(provider) /\ ~api_key_set THEN "ValueError"
    ELSE ""

\* values of a spec_dict field: a list, null, or a string where a list belongs
ListVal(items) == [kind |-> "list", items |-> items]
NullVal == [kind |-> "null", items |-> <<>>]
StrVal == [kind |-> "str", items |-> <<>>]

\* `not spec_dict.get(field)`
Falsy(v) == v.kind = "null" \/ (v.kind = "list" /\ v.items = <<>>)

SpecDict(langs, domains, keywords, nice) ==
    [is_dict |-> TRUE, languages |-> langs, core_domains |-> domains,
     core_keywords |-> keywords, nice_keywords |-> nice]

\* a JSON payload that is not an object
NotADict == [is_dict |-> FALSE]

\* GitScoutJDSpec(**spec_dict) validates: every list field must be a list
ValidSpec(d) ==
    /\ d.languages.kind = "list" /\ d.core_domains.kind = "list"
    /\ d.core_keywords.kind = "list" /\ d.nice_keywords.kind = "list"

\* MockLLMProvider.generate_jd_spec (llm/mock.py:57-140) on a job text, held
\* as the set of vocabulary terms the text contains
MockExtract(text) ==
    LET langs == (IF "python" \in text THEN <<"Python">> ELSE <<>>)
                 \o (IF "golang" \in text THEN <<"Go">> ELSE <<>>)
        domains == IF "backend" \in text THEN <<"backend">> ELSE <<>>
        found == (IF "kafka" \in text THEN <<"kafka">> ELSE <<>>)
                 \o (IF "redis" \in text THEN <<"redis">> ELSE <<>>)
        keywords == IF langs # <<>> /\ found = <<>> /\ domains = <<>>
                    THEN <<"api", "library", "framework", "cli", "sdk">>
                    ELSE found
        nice == IF "terraform" \in text THEN <<"terraform">> ELSE <<>>
    IN  SpecDict(ListVal(Take(langs, 3)), ListVal(Take(domains, 3)),
                 ListVal(Take(keywords, 8)), ListVal(Take(nice, 5)))

\* query_generator.py:103-111: fill the empty fields from the fallback
MergeFallback(d, fb) ==
    [d EXCEPT
        !.languages = IF Falsy(@) /\ ~Falsy(fb.languages) THEN fb.languages ELSE @,
        !.core_domains = IF Falsy(@) /\ ~Falsy(fb.core_domains) THEN fb.core_domains ELSE @,
        !.core_keywords = IF Falsy(@) /\ ~Falsy(fb.core_keywords) THEN fb.core_keywords ELSE @,
        !.nice_keywords = IF Falsy(@) /\ ~Falsy(fb.nice_keywords) THEN fb.nice_keywords ELSE @]

EmptyCritical(d) == Falsy(d.languages) /\ Falsy(d.core_keywords)

jdFrame == <<scoreVars, queryVars, pipeVars, batchVars, hydVars, cacheVars, storeVars>>

\* query_generator.py:116-120: the outer except handler
JDHandler(calls) ==
    IF Construct("mock", jd.api_key_set) # ""
    THEN /\ jd_raised' = Construct("mock", jd.api_key_set)
         /\ jd_result' = jd_result
         /\ jd_calls' = calls
    ELSE /\ jd_result' = [done |-> TRUE, spec |-> MockExtract(jd.text)]
         /\ jd_raised' = jd_raised
         /\ jd_calls' = Append(calls, "mock")

\* query_generator.py:115: return GitScoutJDSpec(**spec_dict)
JDReturn(d, calls) ==
    IF ValidSpec(d)
    THEN /\ jd_result' = [done |-> TRUE, spec |-> d]
         /\ jd_raised' = jd_raised
         /\ jd_calls' = calls
    ELSE JDHandler(calls)

\* query_generator.py:97-115: after the rewrite attempt, with spec_dict = d
JDAfterRewrite(d, calls) ==
    /\ jpc' = "done"
    /\ spec_dict' = d
    /\ IF ~d.is_dict THEN JDHandler(calls)
       ELSE IF ~EmptyCritical(d) THEN JDReturn(d, calls)
       ELSE IF Construct("mock", jd.api_key_set) # "" THEN JDHandler(calls)
       ELSE JDReturn(MergeFallback(d, MockExtract(jd.text)), Append(calls, "mock"))

\* query_generator.py:77: the provider is constructed outside the try block
JDStart ==
    /\ jpc = "start"
    /\ IF Construct(jd.provider, jd.api_key_set) # ""
       THEN /\ jpc' = "done"
            /\ jd_raised' = Construct(jd.provider, jd.api_key_set)
       ELSE /\ jpc' = "extract"
            /\ jd_raised' = jd_raised
    /\ UNCHANGED <<jd, spec_dict, jd_result, jd_calls, jdFrame>>

\* query_generator.py:80: the first generate_jd_spec call raised
ExtractFailed ==
    /\ jpc = "extract"
    /\ jpc' = "done"
    /\ JDHandler(Append(jd_calls, "extract"))
    /\ UNCHANGED <<jd, spec_dict, jdFrame>>

\* query_generator.py:80-85: the first generate_jd_spec call returned d
ExtractReturned(d) ==
    /\ jpc = "extract"
    /\ spec_dict' = d
    /\ IF ~d.is_dict
       THEN jpc' = "done" /\ JDHandler(Append(jd_calls, "extract"))
       ELSE IF EmptyCritical(d)
       THEN /\ jpc' = "rewrite"
            /\ jd_calls' = Append(jd_calls, "extract")
            /\ UNCHANGED <<jd_result, jd_raised>>
       ELSE jpc' = "done" /\ JDReturn(d, Append(jd_calls, "extract"))
    /\ UNCHANGED <<jd, jdFrame>>

\* query_generator.py:88, 94-95: rewrite_vague_query raised
RewriteFailed ==
    /\ jpc = "rewrite"
    /\ JDAfterRewrite(spec_dict, Append(jd_calls, "rewrite"))
    /\ UNCHANGED <<jd, jdFrame>>

\* query_generator.py:88-92: rewrite_vague_query returned a text
RewriteReturned ==
    /\ jpc = "rewrite"
    /\ jpc' = "reextract"
    /\ jd_calls' = Append(jd_calls, "rewrite")
    /\ UNCHANGED <<jd, spec_dict, jd_result, jd_raised, jdFrame>>

\* query_generator.py:92, 94-95: the extraction on the rewritten text raised
ReextractFailed ==
    /\ jpc = "reextract"
    /\ JDAfterRewrite(spec_dict, Append(jd_calls, "extract"))
    /\ UNCHANGED <<jd, jdFrame>>

\* query_generator.py:92-93: the extraction on the rewritten text returned d
ReextractReturned(d) ==
    /\ jpc = "reextract"
    /\ JDAfterRewrite(d, Append(jd_calls, "extract"))
    /\ UNCHANGED <<jd, jdFrame>>

(***************************************************************************)
(* Inputs of the spec extractor                                            *)
(***************************************************************************)
Providers == {"mock", "gemini", "groq", "ollama"}

JobTexts == { {}, {"python"}, {"backend", "terraform"}, {"python", "kafka"} }

\* what a provider's generate_jd_spec may return
ProviderDicts ==
    { NotADict,
      SpecDict(ListVal(<<>>), ListVal(<<>>), ListVal(<<>>), ListVal(<<>>)),
      SpecDict(ListVal(<<"Rust">>), ListVal(<<"systems">>), ListVal(<<"tokio">>),
               ListVal(<<>>)),
      SpecDict(ListVal(<<>>), ListVal(<<"fintech">>), ListVal(<<>>),
               ListVal(<<"vault">>)),
      SpecDict(StrVal, ListVal(<<>>), ListVal(<<>>), ListVal(<<>>)),
      SpecDict(NullVal, ListVal(<<>>), ListVal(<<>>), NullVal) }

InitJD ==
    /\ jpc = "start"
    /\ \E provider \in Providers, text \in JobTexts, key \in BOOLEAN :
          jd = [provider |-> provider, text |-> text, api_key_set |-> key]
    /\ spec_dict = NotADict
    /\ jd_result = NotCalled
    /\ jd_raised = ""
    /\ jd_calls = <<>>
    /\ ScoreIdle /\ QueryIdle /\ PipeIdle /\ BatchIdle /\ HydIdle /\ CacheIdle /\ StoreIdle

NextJD ==
    \/ JDStart
    \/ ExtractFailed
    \/ \E d \in ProviderDicts : ExtractReturned(d)
    \/ RewriteFailed
    \/ RewriteReturned
    \/ ReextractFailed
    \/ \E d \in ProviderDicts : ReextractReturned(d)

SpecJD == InitJD /\ [][NextJD]_vars

(***************************************************************************)
(*            SEARCH CACHE  (services/cache/search_cache.py)               *)
(*                                                                         *)
(* Times are whole multiples of 150 seconds. The cleanup task is started   *)
(* with the application (main.py:53-54); its sleep ends on time: no time   *)
(* passes between the end of asyncio.sleep and _cleanup_expired.           *)
(***************************************************************************)
CacheTtl == 12           \* ttl_seconds = 1800
CleanupInterval == 2     \* cleanup_interval = 300
MaxCacheTime == 15
MaxSessions == 2
PageSize == 2

\* CachedSearch(...) of create_session; the candidates are numbered;
\* created_at and query are stored and never read
CachedSearch(session_id, cands, t) ==
    [session_id |-> session_id, candidates |-> cands,
     total_found |-> Len(cands), last_accessed |-> t]

\* the condition of _cleanup_expired on one entry when time.time() = t
Expired(cached, t) == t - cached.last_accessed > CacheTtl

\* self._cache after _cleanup_expired ran at time t
cleanup_expired(c, t) ==
    [sid \in {x \in DOMAIN c : ~Expired(c[x], t)} |-> c[sid]]

\* the dictionary get_page returns for an entry
Page(cached, page, page_size) ==
    [candidates |-> Slice(cached.candidates, page * page_size, page_size),
     totalFound |-> cached.total_found,
     totalCached |-> Len(cached.candidates),
     page |-> page, pageSize |-> page_size,
     hasMore |-> page * page_size + page_size < Len(cached.candidates),
     sessionId |-> cached.session_id]

\* the dictionary get_session_data returns for an entry
SessionData(cached) ==
    [candidates |-> cached.candidates, total_found |-> cached.total_found]

\* history: one call on the cache; idle is the time since the entry's last
\* access when the call came (-1 when the cache had no such entry), value is
\* None or the dictionary returned
CacheCall(op, sid, idle, value) ==
    [done |-> TRUE, op |-> op, sid |-> sid, idle |-> idle,
     found |-> value # <<>>, value |-> value]

IdleTime(sid) == IF sid \in DOMAIN cache THEN c_now - cache[sid].last_accessed ELSE -1

cacheFrame == <<scoreVars, queryVars, pipeVars, jdVars, batchVars, hydVars, storeVars>>

\* time passes, up to the end of the cleanup loop's sleep
CacheTick ==
    /\ c_now < MaxCacheTime
    /\ c_now < cleanup_due
    /\ c_now' = c_now + 1
    /\ UNCHANGED <<cache, c_issued, cleanup_due, c_answer, cacheFrame>>

\* _cleanup_loop: the sleep is over, _cleanup_expired runs, the next sleep
\* begins
CleanupWakes ==
    /\ c_now = cleanup_due
    /\ c_now < MaxCacheTime
    /\ cache' = cleanup_expired(cache, c_now)
    /\ cleanup_due' = c_now + CleanupInterval
    /\ UNCHANGED <<c_now, c_issued, c_answer, cacheFrame>>

\* create_session(candidates, query, total_found): uuid4 gives a new id
CreateSession(cands) ==
    /\ c_issued < MaxSessions
    /\ c_issued' = c_issued + 1
    /\ cache' = [sid \in DOMAIN cache \cup {c_issued + 1} |->
                    IF sid = c_issued + 1
                    THEN CachedSearch(sid, cands, c_now)
                    ELSE cache[sid]]
    /\ c_answer' = CacheCall("create_session", c_issued + 1, -1, <<c_issued + 1>>)
    /\ UNCHANGED <<c_now, cleanup_due, cacheFrame>>

\* get_page(session_id, page, page_size)
GetPage(sid, page) ==
    /\ IF sid \notin DOMAIN cache
       THEN /\ c_answer' = CacheCall("get_page", sid, -1, <<>>)
            /\ cache' = cache
       ELSE /\ cache' = [cache EXCEPT ![sid].last_accessed = c_now]
            /\ c_answer' = CacheCall("get_page", sid, IdleTime(sid),
                                     <<Page(cache[sid], page, PageSize)>>)
    /\ UNCHANGED <<c_now, c_issued, cleanup_due, cacheFrame>>

\* get_session_data(session_id)
GetSessionData(sid) ==
    /\ IF sid \notin DOMAIN cache
       THEN /\ c_answer' = CacheCall("get_session_data", sid, -1, <<>>)
            /\ cache' = cache
       ELSE /\ cache' = [cache EXCEPT ![sid].last_accessed = c_now]
            /\ c_answer' = CacheCall("get_session_data", sid, IdleTime(sid),
                                     <<SessionData(cache[sid])>>)
    /\ UNCHANGED <<c_now, c_issued, cleanup_due, cacheFrame>>

\* delete_session(session_id)
DeleteSession(sid) ==
    /\ cache' = [x \in DOMAIN cache \ {sid} |-> cache[x]]
    /\ c_answer' = CacheCall("delete_session", sid, IdleTime(sid),
                             <<sid \in DOMAIN cache>>)
    /\ UNCHANGED <<c_now, c_issued, cleanup_due, cacheFrame>>

\* the candidate lists handed to create_session
CachedLists == {<<>>, <<1, 2, 3>>}

InitCache ==
    /\ c_now = 0
    /\ cache = <<>>
    /\ c_issued = 0
    /\ cleanup_due = CleanupInterval
    /\ c_answer = NotCalled
    /\ ScoreIdle /\ QueryIdle /\ PipeIdle /\ JDIdle /\ BatchIdle /\ HydIdle /\ StoreIdle

NextCache ==
    \/ CacheTick
    \/ CleanupWakes
    \/ \E cands \in CachedLists : CreateSession(cands)
    \/ \E sid \in 1..MaxSessions, page \in 0..1 : GetPage(sid, page)
    \/ \E sid \in 1..MaxSessions : GetSessionData(sid)
    \/ \E sid \in 1..MaxSessions : DeleteSession(sid)

SpecCache == InitCache /\ [][NextCache]_vars

(***************************************************************************)
(*     JOB SEARCH STORE  (services/job_search/job_search_service.py)       *)
(*                                                                         *)
(* One stored job search. Every Firestore request of a call is one step.   *)
(* The coroutines of FirestoreService contain no await (the client is the  *)
(* blocking one), so a call never yields to the event loop of its worker   *)
(* process: the calls of one worker run one after the other, the calls of  *)
(* different workers interleave request by request.                        *)
(***************************************************************************)
NumCalls == 3
NumWorkers == 2
MaxConversations == 1
MaxMessages == 2

NoDocument == [exists |-> FALSE]

\* the document create_job_search writes (job_search_service.py:59-68)
NewJobSearch(user_id, cands) ==
    [exists |-> TRUE, userId |-> user_id, candidates |-> cands,
     starredCandidateIds |-> <<>>, currentFilters |-> None]

\* a call of a JobSearchService method and the locals it holds
Call(op, user_id, arg, worker) ==
    [op |-> op, user_id |-> user_id, arg |-> arg, worker |-> worker,
     pc |-> "new", starred_ids |-> <<>>, conversations |-> <<>>,
     messages |-> <<>>, writes |-> 0, raised |-> "", out |-> <<>>]

Raise(call, name) == [call EXCEPT !.pc = "done", !.raised = name]
Return(call, value) == [call EXCEPT !.pc = "done", !.out = <<value>>]

Owns_Anyone(doc, user_id) == TRUE

\* job_search_service.py:109: the ownership check of get_job_search
Owns(doc, user_id) == doc.userId = user_id

\* job_search_service.py:209-217
Toggle(starred_ids, candidate_id) ==
    IF \E i \in 1..Len(starred_ids) : starred_ids[i] = candidate_id
    THEN LET first == CHOOSE i \in 1..Len(starred_ids) :
                         /\ starred_ids[i] = candidate_id
                         /\ \A j \in 1..(i - 1) : starred_ids[j] # candidate_id
         IN  SubSeq(starred_ids, 1, first - 1)
                \o SubSeq(starred_ids, first + 1, Len(starred_ids))
    ELSE Append(starred_ids, candidate_id)

\* the documents of a subcollection in the order the stream gives them
InOrder(ids) ==
    LET Present(i) == i \in ids
    IN  SelectSeq([i \in 1..(MaxConversations + MaxMessages) |-> i], Present)

\* a call may take a step when no other call of its worker is under way
Runnable(c) ==
    /\ js_calls[c].pc # "done"
    /\ \A d \in DOMAIN js_calls \ {c} :
          js_calls[d].worker = js_calls[c].worker
             => js_calls[d].pc \in {"new", "done"}

storeFrame == <<scoreVars, queryVars, pipeVars, jdVars, batchVars, hydVars, cacheVars>>

\* get_job_search(search_id, user_id) as the three methods call it first, and
\* what each does with the answer up to its next request
GetJobSearch(c) ==
    LET call == js_calls[c]
    IN  /\ Runnable(c)
        /\ call.pc = "new"
        /\ js_calls' =
             [js_calls EXCEPT ![c] =
                IF ~js_doc.exists THEN Raise(call, "ValueError")
                ELSE IF ~Owns(js_doc, call.user_id)
                THEN Raise(call, "PermissionError")
                ELSE IF call.op = "toggle_starred_candidate"
                THEN [call EXCEPT !.pc = "update",
                                  !.starred_ids =
                                      Toggle(js_doc.starredCandidateIds, call.arg)]
                ELSE IF call.op = "update_job_search_candidates"
                THEN [call EXCEPT !.pc = "update"]
                ELSE [call EXCEPT !.pc = "conversations"]]
        /\ UNCHANGED <<js_doc, js_convs, js_msgs, storeFrame>>

\* firestore.update_document(COLLECTION, search_id, data); doc_ref.update
\* raises NotFound when the document does not exist
UpdateDocument(c) ==
    LET call == js_calls[c]
    IN  /\ Runnable(c)
        /\ call.pc = "update"
        /\ IF ~js_doc.exists
           THEN /\ js_doc' = js_doc
                /\ js_calls' = [js_calls EXCEPT ![c] = Raise(call, "NotFound")]
           ELSE IF call.op = "toggle_starred_candidate"
           THEN /\ js_doc' = [js_doc EXCEPT !.starredCandidateIds = call.starred_ids]
                /\ js_calls' =
                     [js_calls EXCEPT ![c] =
                        Return([call EXCEPT !.writes = @ + 1],
                               \E i \in 1..Len(call.starred_ids) :
                                   call.starred_ids[i] = call.arg)]
           ELSE /\ js_doc' = [js_doc EXCEPT !.candidates = call.arg,
                                            !.currentFilters = "filters"]
                /\ js_calls' =
                     [js_calls EXCEPT ![c] =
                        Return([call EXCEPT !.writes = @ + 1], TRUE)]
        /\ UNCHANGED <<js_convs, js_msgs, storeFrame>>

\* delete_job_search: get_subcollection_documents(..., "conversations")
ListConversations(c) ==
    LET call == js_calls[c]
        found == InOrder(js_convs)
    IN  /\ Runnable(c)
        /\ call.pc = "conversations"
        /\ js_calls' =
             [js_calls EXCEPT ![c] =
                [call EXCEPT !.conversations = found,
                             !.pc = IF found = <<>> THEN "delete" ELSE "messages"]]
        /\ UNCHANGED <<js_doc, js_convs, js_msgs, storeFrame>>

\* delete_job_search: get_subcollection_documents(..., conv_id, "messages")
ListMessages(c) ==
    LET call == js_calls[c]
        conv == Head(call.conversations)
        found == InOrder({x \in 1..MaxMessages : <<conv, x>> \in js_msgs})
    IN  /\ Runnable(c)
        /\ call.pc = "messages"
        /\ js_calls' =
             [js_calls EXCEPT ![c] =
                [call EXCEPT !.messages = found,
                             !.pc = IF found = <<>> THEN "delete_conversation"
                                    ELSE "delete_message"]]
        /\ UNCHANGED <<js_doc, js_convs, js_msgs, storeFrame>>

\* delete_job_search: delete_document(".../messages", msg["id"])
DeleteMessage(c) ==
    LET call == js_calls[c]
        conv == Head(call.conversations)
    IN  /\ Runnable(c)
        /\ call.pc = "delete_message"
        /\ js_msgs' = js_msgs \ {<<conv, Head(call.messages)>>}
        /\ js_calls' =
             [js_calls EXCEPT ![c] =
                [call EXCEPT !.messages = Tail(@), !.writes = @ + 1,
                             !.pc = IF Len(call.messages) = 1
                                    THEN "delete_conversation"
                                    ELSE "delete_message"]]
        /\ UNCHANGED <<js_doc, js_convs, storeFrame>>

\* delete_job_search: delete_document(".../conversations", conv_id)
DeleteConversation(c) ==
    LET call == js_calls[c]
    IN  /\ Runnable(c)
        /\ call.pc = "delete_conversation"
        /\ js_convs' = js_convs \ {Head(call.conversations)}
        /\ js_calls' =
             [js_calls EXCEPT ![c] =
                [call EXCEPT !.conversations = Tail(@), !.writes = @ + 1,
                             !.pc = IF Len(call.conversations) = 1
                                    THEN "delete" ELSE "messages"]]
        /\ UNCHANGED <<js_doc, js_msgs, storeFrame>>

\* delete_job_search: delete_document(COLLECTION, search_id)
DeleteDocument(c) ==
    LET call == js_calls[c]
    IN  /\ Runnable(c)
        /\ call.pc = "delete"
        /\ js_doc' = NoDocument
        /\ js_calls' =
             [js_calls EXCEPT ![c] = Return([call EXCEPT !.writes = @ + 1], TRUE)]
        /\ UNCHANGED <<js_convs, js_msgs, storeFrame>>

\* the calls made on the stored search of user "u1"
StoreCalls ==
    {Call("toggle_starred_candidate", u, cand, w) :
        u \in {"u1", "u2"}, cand \in {"a", "b"}, w \in 1..NumWorkers}
    \cup {Call("update_job_search_candidates", u, <<"b">>, w) :
        u \in {"u1", "u2"}, w \in 1..NumWorkers}
    \cup {Call("delete_job_search", u, None, w) :
        u \in {"u1", "u2"}, w \in 1..NumWorkers}

\* the conversations of the stored search and their messages
StoredMessages ==
    {{}} \cup {{<<k, x>> : x \in 1..n} : k \in 1..MaxConversations, n \in 0..MaxMessages}

InitStore ==
    /\ js_doc = NewJobSearch("u1", <<"a", "b">>)
    /\ \E n \in 0..MaxConversations, msgs \in StoredMessages :
          /\ js_convs = 1..n
          /\ js_msgs = msgs
          /\ \A pair \in msgs : pair[1] \in 1..n
    /\ js_calls \in [1..NumCalls -> StoreCalls]
    /\ ScoreIdle /\ QueryIdle /\ PipeIdle /\ JDIdle /\ BatchIdle /\ HydIdle /\ CacheIdle

NextStore ==
    \/ \E c \in 1..NumCalls : GetJobSearch(c)
    \/ \E c \in 1..NumCalls : UpdateDocument(c)
    \/ \E c \in 1..NumCalls : ListConversations(c)
    \/ \E c \in 1..NumCalls : ListMessages(c)
    \/ \E c \in 1..NumCalls : DeleteMessage(c)
    \/ \E c \in 1..NumCalls : DeleteConversation(c)
    \/ \E c \in 1..NumCalls : DeleteDocument(c)

SpecStore == InitStore /\ [][NextStore]_vars

(***************************************************************************)
(* Claims about the scorer and the ranker (SpecScore)                      *)
(***************************************************************************)

SubScoresCapped(u, t) ==
    /\ RepoCountScore(u) <= 12000
    /\ StarsScore(u) <= 18000
    /\ CommitsScore(u) <= 18000
    /\ LangScore(u) <= 20000
    /\ ActivityScore(u, t) <= 10000
    /\ FollowersScore(u) <= 7000
    /\ SeedScore(u) <= 15000

\* C1: every score calculate_score returns lies in 0..100 points, and no
\* sub-score of a profile exceeds its cap (12, 18, 18, 20, 10, 7, 15),
\* whatever the magnitude of the inputs.
C1_ScoreBounds ==
    /\ \A k \in 1..Len(evals) : evals[k].score >= 0 /\ evals[k].score <= 10000
    /\ candidates.done =>
          \A k \in 1..Len(candidates.list) :
              candidates.list[k].score >= 0 /\ candidates.list[k].score <= 10000
    /\ \A i \in 1..Len(users) : SubScoresCapped(users[i], now)

\* a profile with 10,000 followers, a million stars and commits has been
\* scored, and scored exactly 100
C1_Witness ==
    \E k \in 1..Len(evals) :
        /\ users[evals[k].user].followers = 10000
        /\ TotalStars(users[evals[k].user].repositories) >= 1000000
        /\ evals[k].score = 10000

\* C2 as claimed: two evaluations of calculate_score on the same profile data
\* return the identical value, whenever each of them happens.
C2_SameProfileSameScore ==
    \A a, b \in 1..Len(evals) :
        users[evals[a].user] = users[evals[b].user] => evals[a].score = evals[b].score

DatedWithin180(repo, t) == repo.pushedAt.kind = "date" /\ repo.pushedAt.day > t - 180

\* C2 amended: two evaluations on the same profile data return the identical
\* value when every repository of the profile lies on the same side of the
\* 180 day window at both evaluation times (in particular at equal times).
C2_SameWindowSameScore ==
    \A a, b \in 1..Len(evals) :
        LET u == users[evals[a].user] IN
        (/\ u = users[evals[b].user]
         /\ \A i \in 1..Len(u.repositories) :
               DatedWithin180(u.repositories[i], evals[a].now)
                   <=> DatedWithin180(u.repositories[i], evals[b].now))
        => evals[a].score = evals[b].score

\* the same profile, holding a dated repository, was scored at two different
\* times and no repository changed sides in between
C2_Witness ==
    \E a, b \in 1..Len(evals) :
        LET u == users[evals[a].user] IN
        /\ u = users[evals[b].user]
        /\ evals[a].now < evals[b].now
        /\ \E i \in 1..Len(u.repositories) : u.repositories[i].pushedAt.kind = "date"
        /\ \A i \in 1..Len(u.repositories) :
               DatedWithin180(u.repositories[i], evals[a].now)
                   <=> DatedWithin180(u.repositories[i], evals[b].now)
        /\ evals[a].score > 0

IndexPermutations(n) == {f \in [1..n -> 1..n] : \A i, j \in 1..n : f[i] = f[j] => i = j}

\* C3: rank_candidates returns one candidate per input profile, in descending
\* order of score, and profiles of equal score keep their input order.
C3_StableDescending ==
    candidates.done =>
        LET out == candidates.list
            n == Len(users)
        IN  /\ Len(out) = n
            /\ \A k \in 1..(Len(out) - 1) : out[k].score >= out[k + 1].score
            /\ \E f \in IndexPermutations(n) :
                  /\ \A k \in 1..n : out[k] = Candidate(users[f[k]], candidates.at)
                  /\ \A k, m \in 1..n :
                        (k < m /\ out[k].score = out[m].score) => f[k] < f[m]

\* a list was ranked in which two different profiles tie
C3_Witness ==
    /\ candidates.done
    /\ \E i, j \in 1..Len(users) :
          /\ i < j
          /\ users[i].login # users[j].login
          /\ calculate_score(users[i], candidates.at)
                = calculate_score(users[j], candidates.at)
          /\ candidates.list[i].login = users[i].login

\* the filters of a page request
PageFilters ==
    { NoFilters,
      CandidateFilters(NoText, Some(1), Absent, FALSE, FALSE, None),
      CandidateFilters(NoText, Absent, Some(100), FALSE, FALSE, None),
      CandidateFilters(Text(<<"b", "E", "r">>), Absent, Absent, FALSE, FALSE, None),
      CandidateFilters(NoText, Absent, Absent, TRUE, FALSE, None),
      CandidateFilters(NoText, Absent, Absent, FALSE, TRUE, None),
      CandidateFilters(NoText, Absent, Absent, FALSE, FALSE, "3m") }

\* the parsed profile a ranked candidate was built from
ProfileOf(c) == users[CHOOSE i \in 1..Len(users) : users[i].login = c.login]

\* C26: every candidate produced by rank_candidates carries its profile's
\* location, follower count, email, social handles and last-contribution
\* date, so filter_candidates applied to the ranked candidates selects exactly
\* the candidates whose profile satisfies the filter.
C26_FilterSelectsByProfile ==
    candidates.done =>
        /\ \A k \in 1..Len(candidates.list) :
              LET c == candidates.list[k]
                  u == ProfileOf(c)
              IN  /\ c.location = u.location
                  /\ c.followers = u.followers
                  /\ c.email = u.email
                  /\ c.twitterUsername = u.twitterUsername
                  /\ c.websiteUrl = u.websiteUrl
                  /\ c.lastContributionDate = u.lastContributionDate
        /\ \A filters \in PageFilters \ {NoFilters} :
              LET ProfilePasses(c) == PassesFilters(ProfileOf(c), filters, now)
              IN  filter_candidates(candidates.list, filters, now)
                     = SelectSeq(candidates.list, ProfilePasses)

(***************************************************************************)
(* Claims about the query builder (SpecQuery)                              *)
(***************************************************************************)

\* every candidate string a strategy can build for the spec, whole
CandidateStrings(sp, t) ==
    LET base == BaseFilterStr(sp, t)
    IN  Range(Strategy1Candidates(sp, base)) \cup Range(Strategy2Candidates(sp, base))
        \cup Range(Strategy4Candidates(sp, base)) \cup Range(Strategy5Candidates(sp, base))
        \cup Range(Strategy6Candidates(sp, base)) \cup Range(Strategy7Candidates(sp, base))

\* C4: every returned query has at most 256 characters, no string is returned
\* twice, and every returned query is a whole candidate (a candidate over 256
\* characters is dropped, never cut).
C4_QueriesWellFormed ==
    queries.done =>
        LET qs == queries.list
        IN  /\ \A i \in 1..Len(qs) : Len(qs[i]) <= 256
            /\ \A i, j \in 1..Len(qs) : qs[i] = qs[j] => i = j
            /\ \A i \in 1..Len(qs) : qs[i] \in CandidateStrings(spec, today)

\* queries were returned for a spec with a candidate over 256 characters and
\* with the same candidate built twice
C4_Witness ==
    /\ queries.done
    /\ queries.list # <<>>
    /\ LET cands == Strategy1Candidates(spec, BaseFilterStr(spec, today))
       IN  /\ \E i \in 1..Len(cands) : Len(cands[i]) > 256
           /\ \E i, j \in 1..Len(cands) :
                 i < j /\ cands[i] = cands[j] /\ cands[i] \in Range(queries.list)

\* C5: at most max_repo_queries queries are returned; every language x domain
\* query kept precedes every language x keyword query kept, and a language x
\* keyword query is kept only when no language x domain query was dropped by
\* the limit.
C5_LimitKeepsPriority ==
    queries.done =>
        LET qs == queries.list
            base == BaseFilterStr(spec, today)
            s1 == Range(Strategy1Candidates(spec, base))
            s2 == Range(Strategy2Candidates(spec, base))
        IN  /\ Len(qs) <= spec.max_repo_queries
            /\ \A i, j \in 1..Len(qs) : (qs[i] \in s1 /\ qs[j] \in s2) => i < j
            /\ (\E i \in 1..Len(qs) : qs[i] \in s2)
                  => \A c \in s1 : Len(c) <= 256 => c \in Range(qs)

\* the limit dropped queries, and both kinds of query were kept
C5_Witness ==
    /\ queries.done
    /\ Len(Dedupe(CollectQueries(spec, today))) > spec.max_repo_queries
    /\ LET base == BaseFilterStr(spec, today)
       IN  /\ \E i \in 1..Len(queries.list) :
                 queries.list[i] \in Range(Strategy1Candidates(spec, base))
           /\ \E i \in 1..Len(queries.list) :
                 queries.list[i] \in Range(Strategy2Candidates(spec, base))

\* the concrete scenario: languages Python and Go, domain backend, six
\* keywords, default thresholds
C13_Scenario ==
    /\ spec.languages = <<"Python", "Go">>
    /\ spec.core_domains = <<"backend">>
    /\ spec.core_keywords = <<"kafka", "grpc", "kubernetes", "docker", "redis", "postgres">>
    /\ spec.min_repo_stars = 20 /\ spec.recency_days = 365
    /\ spec.exclude_forks /\ spec.exclude_archived
    /\ spec.max_repo_queries = 8

\* the base filters of the scenario on 2026-11-03
C13_Base == "stars:>20 pushed:>2025-11-03 fork:false archived:false"

\* C13: in the concrete scenario generate_repo_queries returns exactly six
\* queries: Python+topic:backend, Go+topic:backend, and for each language the
\* OR-groups of keywords 1-3 and 4-6; each at most 256 characters, at most 8.
C13_SixQueries ==
    (queries.done /\ C13_Scenario) =>
        /\ queries.list =
              << "language:Python topic:backend " \o C13_Base,
                 "language:Go topic:backend " \o C13_Base,
                 "language:Python (kafka OR grpc OR kubernetes) " \o C13_Base,
                 "language:Python (docker OR redis OR postgres) " \o C13_Base,
                 "language:Go (kafka OR grpc OR kubernetes) " \o C13_Base,
                 "language:Go (docker OR redis OR postgres) " \o C13_Base >>
        /\ \A i \in 1..Len(queries.list) : Len(queries.list[i]) <= 256
        /\ Len(queries.list) <= 8

C13_Witness == queries.done /\ C13_Scenario /\ Len(queries.list) = 6

\* the queries of each stage that fit in 256 characters, written out from
\* the spec's wording
C24_Base == BaseFilterStr(spec, today)
C24_Primary ==
    {q \in {"language:" \o spec.languages[l] \o " topic:" \o spec.core_domains[d]
               \o " " \o C24_Base :
               l \in 1..Min(3, Len(spec.languages)),
               d \in 1..Min(2, Len(spec.core_domains))}
            \cup Range(Strategy2Candidates(spec, C24_Base)) : Len(q) <= 256}
C24_LanguageOnly ==
    {q \in {"language:" \o spec.languages[l] \o " " \o C24_Base :
               l \in 1..Min(2, Len(spec.languages))} : Len(q) <= 256}
C24_DomainOnly ==
    {q \in {"topic:" \o spec.core_domains[d] \o " " \o C24_Base :
               d \in 1..Min(3, Len(spec.core_domains))} : Len(q) <= 256}
C24_KeywordOnly ==
    {q \in {Join(Slice(spec.core_keywords, 2 * (g - 1), 2), " ") \o " " \o C24_Base :
               g \in 1..((Min(6, Len(spec.core_keywords)) + 1) \div 2)} : Len(q) <= 256}
C24_Generic == "stars:>100 " \o C24_Base

\* the returned queries all come from one stage: the first one, in the
\* order primary, language-only, domain-only, keyword pairs, generic, that
\* has a query to give
C24_OneStage ==
    LET got == Range(queries.list)
    IN  IF C24_Primary # {} THEN got \subseteq C24_Primary
        ELSE IF C24_LanguageOnly # {} THEN got \subseteq C24_LanguageOnly
        ELSE IF C24_DomainOnly # {} THEN got \subseteq C24_DomainOnly
        ELSE IF C24_KeywordOnly # {} THEN got \subseteq C24_KeywordOnly
        ELSE got \subseteq {C24_Generic}

C24_EmptySpec ==
    spec.languages = <<>> /\ spec.core_domains = <<>> /\ spec.core_keywords = <<>>

\* C24 as claimed: the fallback stages fire only while no query has been
\* produced, in their order, never mixed with a primary query; a spec without
\* languages, domains and keywords gets exactly the generic query.
C24_FallbackStages ==
    queries.done =>
        /\ C24_OneStage
        /\ C24_EmptySpec => queries.list = <<C24_Generic>>

\* C24 amended: the same, the single generic query being returned when
\* max_repo_queries is at least 1 (the final truncation to max_repo_queries
\* leaves nothing when it is 0).
C24_FallbackStagesWithinLimit ==
    queries.done =>
        /\ C24_OneStage
        /\ Len(queries.list) <= spec.max_repo_queries
        /\ spec.max_repo_queries >= 1 => queries.list # <<>>
        /\ (C24_EmptySpec /\ spec.max_repo_queries >= 1) =>
              queries.list = <<C24_Generic>>
        /\ (C24_EmptySpec /\ spec.max_repo_queries = 0) => queries.list = <<>>

\* the generic query alone was returned for an empty spec
C24_Witness ==
    /\ queries.done
    /\ C24_EmptySpec
    /\ spec.max_repo_queries >= 1
    /\ queries.list = <<C24_Generic>>

\* C25 as claimed: every required keyword of the spec (up to 8) is in a
\* candidate query of each of the first 3 languages, in its consecutive group
\* of at most 3 keywords.
C25_EveryKeywordQueried ==
    queries.done =>
        \A l \in 1..Min(3, Len(spec.languages)) :
            \A k \in 1..Min(8, Len(spec.core_keywords)) :
                LangKeywordQuery(spec.languages[l],
                                 Slice(spec.core_keywords, 3 * ((k - 1) \div 3), 3),
                                 BaseFilterStr(spec, today))
                    \in Range(Strategy2Candidates(spec, BaseFilterStr(spec, today)))

(***************************************************************************)
(* Claims about the pipeline (SpecPipeline)                                *)
(***************************************************************************)

\* C6: the discovered repository list never holds two repositories with the
\* same nameWithOwner, whether the repeats come from one query or several.
C6_NoDuplicateRepos ==
    /\ \A i, j \in 1..Len(all_repos) :
          all_repos[i].nameWithOwner = all_repos[j].nameWithOwner => i = j
    /\ \A i, j \in 1..Len(top_repos) :
          top_repos[i].nameWithOwner = top_repos[j].nameWithOwner => i = j
    /\ seen_repos = {all_repos[i].nameWithOwner : i \in 1..Len(all_repos)}

\* the searches are over and returned an already seen repository
C6_Witness ==
    /\ qi > Len(cfg.queries)
    /\ dup_nodes > 0
    /\ Len(all_repos) >= 2

\* the aggregation loop has run
Aggregated == pc \in {"hydrate", "done"} /\ ci > 0

\* the places (repository index, 0-based rank) where a login occurs with a
\* handle in the contributor lists of the processed repositories
Occurrences(login) ==
    UNION { LET l == ContributorsOf(contributors_by_repo, top_repos[i].nameWithOwner)
            IN  {<<i, k - 1>> : k \in {j \in 1..Len(l) :
                                          l[j].login = login /\ l[j].node_id # ""}}
            : i \in 1..Len(top_repos) }

\* the logins that occur with a handle
OccurringLogins ==
    UNION { LET l == ContributorsOf(contributors_by_repo, top_repos[i].nameWithOwner)
            IN  {l[j].login : j \in {j \in 1..Len(l) : l[j].node_id # ""}}
            : i \in 1..Len(top_repos) }

\* min(stars/100, 10) x 1/(rank+1) x ln(contributions+1), in units of 1/6,000,000
ExpectedTerm(i, k) ==
    LET r == top_repos[i]
        c == ContributorsOf(contributors_by_repo, r.nameWithOwner)[k + 1]
        weight == IF r.stargazerCount >= 1000 THEN 1000 ELSE r.stargazerCount
    IN  weight * (60 \div (k + 1)) * LnMilli(c.contributions + 1)

RECURSIVE SumTerms(_)
SumTerms(S) ==
    IF S = {} THEN 0
    ELSE LET x == CHOOSE y \in S : TRUE
         IN  ExpectedTerm(x[1], x[2]) + SumTerms(S \ {x})

\* C7: after aggregation a login's score is the sum, over every processed
\* repository and position where it occurs, of
\* min(stars/100, 10) x 1/(rank+1) x ln(contributions+1); the logins scored are
\* exactly those that occur.
C7_ScoreIsSumOfTerms ==
    Aggregated =>
        /\ \A n \in 1..Len(contributor_scores) :
              contributor_scores[n].score
                 = SumTerms(Occurrences(contributor_scores[n].login))
        /\ {contributor_scores[n].login : n \in 1..Len(contributor_scores)}
              = OccurringLogins \ {""}

\* a login was scored from two repositories, with a non-zero term from each
C7_Witness ==
    /\ Aggregated
    /\ \E n \in 1..Len(contributor_scores) :
          \E x, y \in Occurrences(contributor_scores[n].login) :
              /\ x[1] # y[1]
              /\ ExpectedTerm(x[1], x[2]) > 0
              /\ ExpectedTerm(y[1], y[2]) > 0

\* C8 as claimed: the handle recorded for a login is the one it was first seen
\* with; a later repository naming another handle does not replace it.
C8_FirstHandleKept ==
    \A login \in DOMAIN contributor_node_ids :
        contributor_node_ids[login] = first_node_ids[login]

\* C9: when the searches leave no repository, or the processed repositories
\* yield no contributor, the pipeline returns ([], {}) without raising and
\* issues no request of a later stage.
C9_EmptyStagesReturnEmpty ==
    /\ (pc = "done" /\ all_repos = <<>>) =>
          /\ result = EmptyResult
          /\ raised = ""
          /\ requests.contributors = 0
          /\ requests.hydrate = 0
    /\ (qi > Len(cfg.queries) /\ all_repos = <<>>) => pc = "done"
    /\ (Aggregated /\ DOMAIN contributor_node_ids = {}) =>
          /\ pc = "done"
          /\ result = EmptyResult
          /\ raised = ""
          /\ requests.hydrate = 0

\* repositories were processed and none yielded a contributor
C9_Witness ==
    /\ Aggregated
    /\ DOMAIN contributor_node_ids = {}
    /\ requests.contributors = Len(top_repos)
    /\ Len(top_repos) = 2
    /\ result = EmptyResult

\* the names of the repositories of a list
RepoNames(repos) == {repos[i].nameWithOwner : i \in 1..Len(repos)}

\* the queries are all processed and the sort of line 72 did not raise
SearchStageOver == qi > Len(cfg.queries) /\ raised # "TypeError"

\* C14: a search query that fails is skipped. The failure never leaves the
\* pipeline; the discovered list holds exactly the repositories the answered
\* queries found (before and after a failing one); while queries remain the
\* search goes on, and once all are processed the contributor stage starts
\* on what was found. (Only the sort of the discovered list can still raise,
\* for repositories with equal stars of which one was never pushed: this has
\* nothing to do with a failed query and is left out here.)
C14_FailedQuerySkipped ==
    /\ raised # "SearchError"
    /\ RepoNames(all_repos) = hist.found
    /\ Len(all_repos) = Cardinality(hist.found)
    /\ qi = requests.search + 1
    /\ (hist.failed > 0 /\ qi <= Len(cfg.queries)) => pc = "search"
    /\ (hist.failed > 0 /\ SearchStageOver /\ all_repos # <<>>) =>
          /\ pc # "search"
          /\ ci >= 1
          /\ RepoNames(top_repos) \subseteq hist.found
          /\ top_repos # <<>>

\* a query failed, another one found repositories, and the contributor
\* stage runs on them
C14_Witness ==
    /\ hist.failed > 0
    /\ hist.found # {}
    /\ pc = "contributors"
    /\ RepoNames(top_repos) = hist.found

\* C15: after all queries the contributor stage gets the deduplicated list
\* sorted by stars descending, ties by last push descending, cut to
\* max_repos: at most max_repos repositories, each found once, and no
\* repository left out has more stars than one that is kept.
C15_TopReposSortedAndCut ==
    SearchStageOver =>
        /\ Len(top_repos) = Min(Len(all_repos), cfg.max_repos)
        /\ Len(top_repos) <= cfg.max_repos
        /\ RepoNames(all_repos) = hist.found
        /\ Cardinality(RepoNames(top_repos)) = Len(top_repos)
        /\ \A i \in 1..Len(top_repos) : top_repos[i] = all_repos[i]
        /\ \A i, j \in 1..Len(all_repos) :
              i < j =>
                 \/ all_repos[i].stargazerCount > all_repos[j].stargazerCount
                 \/ /\ all_repos[i].stargazerCount = all_repos[j].stargazerCount
                    /\ all_repos[i].pushedAt.kind = all_repos[j].pushedAt.kind
                    /\ PushedDay(all_repos[i]) >= PushedDay(all_repos[j])
        /\ \A i \in 1..Len(all_repos) :
              all_repos[i].nameWithOwner \notin RepoNames(top_repos) =>
                 \A j \in 1..Len(top_repos) :
                    all_repos[i].stargazerCount <= top_repos[j].stargazerCount

\* three repositories were found, two are kept: two with the same stars, the
\* one pushed later first
C15_Witness ==
    /\ SearchStageOver
    /\ pc = "contributors"
    /\ Len(all_repos) > cfg.max_repos
    /\ Len(top_repos) = cfg.max_repos
    /\ top_repos[1].stargazerCount = top_repos[2].stargazerCount
    /\ PushedDay(top_repos[1]) > PushedDay(top_repos[2])

\* the pipeline returned after scoring at least one login
ReturnedScores == pc = "done" /\ result.done /\ Aggregated /\ contributor_scores # <<>>

\* the handles of the hydration requests made so far, in request order
RECURSIVE Requested(_)
Requested(batches) ==
    IF batches = <<>> THEN <<>>
    ELSE Requested(SubSeq(batches, 1, Len(batches) - 1)) \o batches[Len(batches)]

\* C16: the score map returned holds at most 50 logins, each once with its
\* accumulated score; no login left out has a strictly higher score than one
\* that is kept; the handles sent to hydration are the handles of the kept
\* logins, one per login.
C16_TopFiftyReturned ==
    ReturnedScores =>
        LET kept == result.scores
            keptLogins == {kept[k].login : k \in 1..Len(kept)}
        IN  /\ Len(kept) <= 50
            /\ Len(kept) = Min(50, Len(contributor_scores))
            /\ Cardinality(keptLogins) = Len(kept)
            /\ \A k \in 1..Len(kept) :
                  \E n \in 1..Len(contributor_scores) : contributor_scores[n] = kept[k]
            /\ \A n \in 1..Len(contributor_scores) :
                  contributor_scores[n].login \notin keptLogins =>
                     \A k \in 1..Len(kept) :
                        contributor_scores[n].score <= kept[k].score
            /\ Len(top_node_ids) = Len(kept)
            /\ \A k \in 1..Len(kept) :
                  top_node_ids[k] = contributor_node_ids[kept[k].login]
            /\ Requested(hist.batches) = top_node_ids

\* more than 50 logins were scored, and a login met after the first 50 is
\* returned with a positive score
C16_Witness ==
    /\ ReturnedScores
    /\ Len(contributor_scores) > 50
    /\ Len(result.scores) = 50
    /\ \E n \in 51..Len(contributor_scores) :
          /\ contributor_scores[n].score > 0
          /\ \E k \in 1..Len(result.scores) : result.scores[k] = contributor_scores[n]

\* C19 as claimed: when the request of one batch fails, hydrate_users still
\* returns, with the profiles of the batches that were answered.
C19_BatchFailureTolerated ==
    (pc = "done" /\ hist.batches # <<>>) =>
        /\ raised = ""
        /\ result.done
        /\ result.users = hydrated

\* the profiles expected for the handles `ids`: one node per handle that was
\* not answered with null, in list order
ExpectedNodes(ids) ==
    LET NotNull(h) == h \notin hist.nulls
        live == SelectSeq(ids, NotNull)
    IN  [k \in 1..Len(live) |-> [id |-> live[k]]]

\* C20: hydrate_users requests the handles in consecutive chunks of at most
\* batch_size, in list order, each handle in exactly one chunk; when no request
\* fails there are ceil(n/batch_size) requests and the result is the
\* concatenation of the non-null nodes of the responses, in order.
C20_ChunksInOrder ==
    (pc \in {"hydrate", "done"} /\ top_node_ids # <<>>) =>
        LET n == Len(top_node_ids)
            b == hist.batches
        IN  /\ Len(b) = requests.hydrate
            /\ \A m \in 1..Len(b) :
                  /\ (m - 1) * HydrateBatchSize < n
                  /\ b[m] = SubSeq(top_node_ids, (m - 1) * HydrateBatchSize + 1,
                                   Min(m * HydrateBatchSize, n))
            /\ (pc = "hydrate" /\ hydrated # <<>>) =>
                  hydrated = ExpectedNodes(Requested(b))
            /\ (pc = "done" /\ raised = "") =>
                  /\ Len(b) = (n + HydrateBatchSize - 1) \div HydrateBatchSize
                  /\ Requested(b) = top_node_ids
                  /\ result.done
                  /\ result.users = ExpectedNodes(top_node_ids)

\* three handles, batch size two: two requests, the second for one handle;
\* a handle was answered with null and is missing from the result
C20_Witness ==
    /\ pc = "done" /\ raised = "" /\ result.done
    /\ Len(hist.batches) >= 2
    /\ Len(top_node_ids) % HydrateBatchSize # 0
    /\ hist.nulls # {}
    /\ result.users # <<>>
    /\ Len(result.users) < Len(top_node_ids)

\* C29: the sort of the discovered repositories never fails: when every
\* query has been searched and two repositories of equal stars were found, one
\* of them without pushedAt, run_repo_contributors_pipeline has not raised
\* TypeError (it has ordered them and gone on to the contributors).
C29_SortNeverFails ==
    (/\ qi > Len(cfg.queries)
     /\ \E i, j \in 1..Len(all_repos) :
           /\ all_repos[i].stargazerCount = all_repos[j].stargazerCount
           /\ all_repos[i].pushedAt = NoDate
           /\ all_repos[j].pushedAt.kind = "date")
        => raised # "TypeError"

(***************************************************************************)
(* Claims about the contributor batch (SpecBatch)                          *)
(***************************************************************************)
\* C17: at every moment of get_contributors_batch the number of contributor
\* requests in flight (tasks inside the semaphore, between attempts included)
\* is at most max_concurrent, whatever the order of completions and failures.
C17_InFlightBounded ==
    /\ Cardinality(InsideSemaphore(tasks)) <= batch_args.max_concurrent
    /\ semaphore = batch_args.max_concurrent - Cardinality(InsideSemaphore(tasks))
    /\ semaphore >= 0

\* the ceiling is reached while another task waits, one task being between
\* two attempts
C17_Witness ==
    /\ Cardinality(InsideSemaphore(tasks)) = batch_args.max_concurrent
    /\ \E i \in 1..Len(tasks) : tasks[i].state = "pending"
    /\ \E i \in 1..Len(tasks) : tasks[i].state = "sleep"
    /\ \E i \in 1..Len(tasks) : tasks[i].state = "failed"

\* what the batch has to record for a task, from the answer its last
\* request got
ExpectedList(t) ==
    IF t.answer.kind = "list"
    THEN SelectSeq(t.answer.entries, LAMBDA c : c.type = "User")
    ELSE <<>>

\* C18: when get_contributors_batch returns, every fetch has ended; each
\* repository with a task has its own entry, the users of its answer, or the
\* empty list after a 404 or a failure; a failure changes no other entry and
\* the call returns a dictionary in every case.
C18_AllSettledFailuresEmpty ==
    /\ bpc = "done" =>
          /\ batch_result.done
          /\ \A i \in 1..Len(tasks) : tasks[i].state \in {"none", "done", "failed"}
          /\ DOMAIN batch_result.by_repo
                = {RepoKey(batch_args.repos[i]) : i \in {j \in 1..Len(tasks) :
                                                     HasTask(batch_args.repos[j])}}
          /\ \A i \in 1..Len(tasks) :
                HasTask(batch_args.repos[i]) =>
                   /\ tasks[i].answer # NoAnswer
                   /\ batch_result.by_repo[RepoKey(batch_args.repos[i])]
                         = ExpectedList(tasks[i])
    /\ \A i \in 1..Len(tasks) :
          tasks[i].state = "done" => tasks[i].result = ExpectedList(tasks[i])

\* the call returned after one fetch failed, one got a 404 and one returned
\* users
C18_Witness ==
    /\ bpc = "done"
    /\ \E i \in 1..Len(tasks) : tasks[i].state = "failed"
    /\ \E i \in 1..Len(tasks) : tasks[i].answer = NotFound
    /\ \E i \in 1..Len(tasks) :
          /\ tasks[i].state = "done"
          /\ batch_result.by_repo[RepoKey(batch_args.repos[i])] # <<>>

(***************************************************************************)
(* Claims about the retry helper and the hydration (SpecHydrate)           *)
(***************************************************************************)
\* a failure the spec calls transient: connect or read timeout, protocol
\* error, status 502/503/504
TransientFailure(resp) ==
    \/ resp.kind = "status" /\ resp.code \in {502, 503, 504}
    \/ resp.kind = "exception"
          /\ resp.name \in {"ConnectTimeout", "ReadTimeout", "RemoteProtocolError"}

\* C21: one call of the retry helper makes at most max_retries + 1 attempts;
\* every attempt but the last of the call failed with a transient failure and
\* was followed by a wait of base_delay x 2^(k-1) plus a jitter of at most
\* one second before the k-th retry; when the last allowed attempt fails, its
\* exception is raised and no wait follows.
C21_RetryBounded ==
    /\ Len(h_log) <= MaxRetries + 1
    /\ h_attempt <= MaxRetries
    /\ \A k \in 1..Len(h_log) :
          /\ h_log[k].attempt = k - 1
          /\ (k < Len(h_log) \/ hpc \in {"request", "sleep"}) =>
                /\ TransientFailure(h_log[k].resp)
                /\ h_log[k].wait >= BaseDelay * (2 ^ (k - 1))
                /\ h_log[k].wait <= BaseDelay * (2 ^ (k - 1)) + 10
    /\ hpc = "request" => h_attempt = Len(h_log)
    /\ hpc = "sleep" => h_attempt = Len(h_log) - 1
    /\ (hpc = "done" /\ h_log # <<>>) =>
          LET last == h_log[Len(h_log)]
          IN  /\ last.wait = -1
              /\ IsFailure(last.resp) =>
                    /\ h_raised = ExcName(last.resp)
                    /\ h_out = NotCalled
              /\ (TransientFailure(last.resp) /\ h_raised # "") =>
                    /\ Len(h_log) = MaxRetries + 1
                    /\ h_last = h_raised

\* the fourth attempt failed after three waits of at least 1, 2 and 4
\* seconds, and its exception was raised
C21_Witness ==
    /\ hpc = "done"
    /\ Len(h_log) = MaxRetries + 1
    /\ h_raised = "HTTPStatusError 503"
    /\ h_log[1].wait >= 10 /\ h_log[2].wait >= 20 /\ h_log[3].wait >= 40
    /\ h_log[4].wait = -1

\* an API error that is not transient: a status outside 502/503/504, or a
\* response with a GraphQL error list
NonRetryableApiError(resp) ==
    \/ resp.kind = "status" /\ resp.code \notin {502, 503, 504}
    \/ resp.kind = "graphql_errors"

C10_NeverRaises ==
    /\ jd_raised = ""
    /\ jpc = "done" => jd_result.done

\* how often a call occurs in the history of calls
CountCalls(name) == Cardinality({i \in 1..Len(jd_calls) : jd_calls[i] = name})

\* the call ended at the local keyword-matching extractor: it returned the
\* extractor's spec, merged it in, or failed to construct the extractor
ResortedToLocal ==
    /\ jpc = "done"
    /\ jd_calls # <<>>
    /\ jd_raised # "" \/ jd_calls[Len(jd_calls)] = "mock"

\* C11 as claimed: the rewrite is attempted at most once, a rewrite is
\* followed by at most one extraction, and the local extractor is resorted to
\* only after one rewrite attempt, also when the first extraction failed.
C11_OneRewriteCycle ==
    /\ CountCalls("rewrite") <= 1
    /\ CountCalls("extract") <= 2
    /\ ResortedToLocal => CountCalls("rewrite") = 1

\* the local matcher finds a term of its vocabularies in the job text
LocalMatch(text) ==
    LET m == MockExtract(text)
    IN  ~Falsy(m.languages) \/ ~Falsy(m.core_domains) \/ ~Falsy(m.core_keywords)

\* C12 as claimed: when the provider's first extraction had neither languages
\* nor keywords and the local matcher finds a match in the job text, the call
\* returns a spec with languages or core keywords.
C12_FallbackFillsSpec ==
    (jpc = "done" /\ CountCalls("rewrite") = 1 /\ LocalMatch(jd.text)) =>
        /\ jd_result.done
        /\ ~Falsy(jd_result.spec.languages) \/ ~Falsy(jd_result.spec.core_keywords)

\* C23 as claimed: when the local extractor's output is merged into the spec
\* the provider extracted (languages and core keywords still empty after the
\* rewrite), the fields the provider had populated keep their value in the
\* returned spec.
C23_PopulatedFieldsKept ==
    (/\ jpc = "done"
     /\ spec_dict.is_dict
     /\ ValidSpec(spec_dict)
     /\ EmptyCritical(spec_dict)
     /\ ~Falsy(spec_dict.core_domains) \/ ~Falsy(spec_dict.nice_keywords)) =>
        /\ jd_result.done
        /\ ~Falsy(spec_dict.core_domains) =>
              jd_result.spec.core_domains = spec_dict.core_domains
        /\ ~Falsy(spec_dict.nice_keywords) =>
              jd_result.spec.nice_keywords = spec_dict.nice_keywords

(***************************************************************************)
(* Claims about the search cache (SpecCache)                               *)
(***************************************************************************)

\* C27: sessions expire after the TTL: a get_page or get_session_data call
\* that comes more than ttl_seconds after the session's last access returns
\* None.
C27_ExpiredSessionAnswersNone ==
    (/\ c_answer.done
     /\ c_answer.op \in {"get_page", "get_session_data"}
     /\ c_answer.idle > CacheTtl)
        => ~c_answer.found

(***************************************************************************)
(* Claims about the job search store (SpecStore)                           *)
(***************************************************************************)

\* the calls whose user_id is not the userId of the stored search
Strangers == {c \in DOMAIN js_calls : js_calls[c].user_id # "u1"}

\* a call by a stranger is never between two requests and never returns a
\* value: it ends with PermissionError while the search is stored, with
\* ValueError once its owner has deleted it
StrangersRefused ==
    \A c \in Strangers :
        /\ js_calls[c].writes = 0
        /\ js_calls[c].pc \in {"new", "done"}
        /\ js_calls[c].pc = "done"
              => /\ js_calls[c].out = <<>>
                 /\ js_calls[c].raised \in {"PermissionError", "ValueError"}
                 /\ js_calls[c].raised = "ValueError" => ~js_doc.exists

\* a step of a stranger's call changes nothing that is stored
StrangerStepKeepsStore ==
    \A c \in Strangers :
        js_calls'[c] # js_calls[c]
           => /\ js_doc' = js_doc
              /\ js_convs' = js_convs
              /\ js_msgs' = js_msgs

\* C28: a call of update_job_search_candidates, toggle_starred_candidate or
\* delete_job_search by a user who does not own the stored search raises
\* PermissionError, issues no write and no delete, and leaves the job search
\* document, its starred list, its conversations and their messages as they
\* were.
C28_NonOwnerChangesNothing ==
    []StrangersRefused /\ [][StrangerStepKeepsStore]_vars

\* every kind of call was made by a stranger on the stored search with a
\* starred candidate, and all of them were refused
C28_Witness ==
    /\ js_doc.exists
    /\ js_doc.starredCandidateIds # <<>>
    /\ \E c \in Strangers :
          /\ js_calls[c].pc = "done"
          /\ js_calls[c].raised = "PermissionError"
          /\ js_calls[c].op = "delete_job_search"
    /\ \E c \in Strangers :
          /\ js_calls[c].pc = "done"
          /\ js_calls[c].raised = "PermissionError"
          /\ js_calls[c].op = "toggle_starred_candidate"

\* the toggle calls that returned
ToggleCalls ==
    {c \in DOMAIN js_calls :
        /\ js_calls[c].op = "toggle_starred_candidate"
        /\ js_calls[c].out # <<>>}

RECURSIVE ApplyToggles(_, _)
\* the starred list after the toggles of the calls in order, one after another
ApplyToggles(starred_ids, order) ==
    IF order = <<>> THEN starred_ids
    ELSE ApplyToggles(Toggle(starred_ids, js_calls[Head(order)].arg), Tail(order))

\* the orders in which the calls of a set can be applied
Orders(S) ==
    {order \in [1..Cardinality(S) -> S] :
        \A i, j \in 1..Cardinality(S) : order[i] = order[j] => i = j}

AllCallsOver == \A c \in DOMAIN js_calls : js_calls[c].pc = "done"

\* C30: concurrent toggle_starred_candidate calls lose no update: when all
\* calls are over and the search is still stored, its starred list is the
\* result of applying the toggles that returned one after another in some
\* order.
C30_NoLostToggle ==
    (AllCallsOver /\ js_doc.exists)
        => \E order \in Orders(ToggleCalls) :
              js_doc.starredCandidateIds = ApplyToggles(<<>>, order)

====
